---- MODULE Spec2Model ----
(***************************************************************************)
(* A model of the PDF electronic-signature application: the binding-hash   *)
(* functions (utils/cpf.ts), the signature ledger (utils/storage.ts), the  *)
(* protocol-page builder, header stamper and finalize operation            *)
(* (services/pdf.ts) and the session handlers of App.tsx.                  *)
(*                                                                         *)
(* Conventions.  A JavaScript string is a sequence of characters; a        *)
(* character is a one-character TLA+ string, a non-ASCII character is      *)
(* written "U+XXXX".  A Uint8Array is a record naming its underlying       *)
(* ArrayBuffer (a sequence of bytes), its byteOffset and its length.       *)
(* Lengths on a page are in hundredths of a PDF point.                     *)
(***************************************************************************)
EXTENDS Integers, Sequences, FiniteSets, TLC

VARIABLES
    dIn, dOut,                  \* hash functions: the arguments, the result
    pA, pB, pOut,               \* signature payloads of two argument tuples
    fIn,                        \* finalize: the document and the ledger given
    fHeap,                      \* finalize: the caller's objects the call works on
    fLoop,                      \* finalize: the array the loop over the signatures iterates
    fPc,                        \* finalize: the position in the operation
    fPages,                     \* finalize: the pages of the loaded document
    fHash,                      \* finalize: documentHash
    fSize,                      \* createProtocolPage: [pageWidth, pageHeight]
    fY,                         \* createProtocolPage: the cursor y
    fNext,                      \* createProtocolPage: the next signature
    fStamp,                     \* drawHashHeaderOnAllPages: the loop index i
    fOut,                       \* finalize: what the call returned or threw
    state,                      \* App: the state of the component
    rendered,                   \* App: the state as of the last render
    mounted,                    \* App: the mount effect has run
    localStorage,               \* the items of window.localStorage
    selectCall,                 \* a file selection in flight, if any
    signCalls,                  \* the calls of handleSign in flight
    downloadCalls,              \* the calls of handleDownload in flight
    clock,                      \* the time new Date() last returned
    uuidCount,                  \* the calls of crypto.randomUUID so far
    lastSign,                   \* history: the call of handleSign that has just ended
    lastDownload,               \* history: the file just handed to the browser
    lastSelect,                 \* history: the file selection that has just ended
    created,                    \* history: the files a ledger was created for
    lHeap,                      \* ledger functions: the objects of the heap
    lCall,                      \* ledger functions: the last call and its result
    uIn,                        \* page size: the pages of the document given
    uPc,                        \* page size: the next statement of createProtocolPage
    uOut                        \* page size: the size detected and the pages after

digestVars == <<dIn, dOut>>
payloadVars == <<pA, pB, pOut>>
finalizeVars ==
    <<fIn, fHeap, fLoop, fPc, fPages, fHash, fSize, fY, fNext, fStamp, fOut>>
appVars ==
    <<state, rendered, mounted, localStorage, selectCall, signCalls,
      downloadCalls, clock, uuidCount, lastSign, lastDownload, lastSelect,
      created>>
ledgerVars == <<lHeap, lCall>>
utilVars == <<uIn, uPc, uOut>>
vars ==
    <<digestVars, payloadVars, finalizeVars, appVars, ledgerVars, utilVars>>

(***************************************************************************)
(* Bounds of the model.                                                    *)
(***************************************************************************)
\* the longest run of bytes of the underlying buffer before or after a view
MaxPad == 1
\* the most pages of a source document
MaxSrcPages == 2
\* the most signatures of a ledger handed to finalize
MaxSigners == 6

(***************************************************************************)
(* Characters, strings and bytes.                                          *)
(***************************************************************************)
Ascii ==
    <<" ", "!", "\"", "#", "$", "%", "&", "'", "(", ")", "*", "+", ",", "-",
      ".", "/", "0", "1", "2", "3", "4", "5", "6", "7", "8", "9", ":", ";",
      "<", "=", ">", "?", "@", "A", "B", "C", "D", "E", "F", "G", "H", "I",
      "J", "K", "L", "M", "N", "O", "P", "Q", "R", "S", "T", "U", "V", "W",
      "X", "Y", "Z", "[", "\\", "]", "^", "_", "U+0060", "a", "b", "c", "d", "e",
      "f", "g", "h", "i", "j", "k", "l", "m", "n", "o", "p", "q", "r", "s",
      "t", "u", "v", "w", "x", "y", "z", "{", "|", "}", "~">>

\* the Unicode code point of a character
CodePoint(c) ==
    CASE c = "U+00C3" -> 195
      [] c = "U+00E1" -> 225
      [] c = "U+00E3" -> 227
      [] OTHER -> 31 + (CHOOSE i \in 1..Len(Ascii) : Ascii[i] = c)

\* the UTF-8 bytes of one code point (code points below 65536)
UTF8(cp) ==
    IF cp < 128 THEN <<cp>>
    ELSE IF cp < 2048 THEN <<192 + (cp \div 64), 128 + (cp % 64)>>
    ELSE <<224 + (cp \div 4096), 128 + ((cp \div 64) % 64), 128 + (cp % 64)>>

RECURSIVE JoinRange(_, _, _)
\* the concatenation of parts[lo], ..., parts[hi]
JoinRange(parts, lo, hi) ==
    IF lo > hi THEN <<>>
    ELSE IF lo = hi THEN parts[lo]
    ELSE LET mid == (lo + hi) \div 2
         IN  JoinRange(parts, lo, mid) \o JoinRange(parts, mid + 1, hi)

\* the concatenation of a sequence of sequences (Array.prototype.join(''))
Join(parts) == JoinRange(parts, 1, Len(parts))

\* new Uint8Array(buffer, byteOffset, length)
Uint8Array(buffer, byteOffset, length) ==
    [kind |-> "Uint8Array", buffer |-> buffer, byteOffset |-> byteOffset,
     length |-> length]

\* the elements u[0], ..., u[u.length - 1] of a Uint8Array
ViewBytes(u) == SubSeq(u.buffer, u.byteOffset + 1, u.byteOffset + u.length)

\* a JavaScript string value, as an argument of a function that also takes bytes
JSString(chars) == [kind |-> "string", chars |-> chars]

\* new TextEncoder().encode(s): a Uint8Array over a buffer of its own
TextEncoderEncode(chars) ==
    LET bytes == Join([i \in 1..Len(chars) |-> UTF8(CodePoint(chars[i]))])
    IN  Uint8Array(bytes, 0, Len(bytes))

\* target.set(source, offset) of a typed array: the elements of source are
\* written over the elements offset, offset + 1, ... of target
TypedArraySet(target, source, offset) ==
    LET src == ViewBytes(source)
    IN  [target EXCEPT !.buffer =
            [i \in 1..Len(@) |->
                IF /\ i > target.byteOffset + offset
                   /\ i <= target.byteOffset + offset + Len(src)
                THEN src[i - target.byteOffset - offset]
                ELSE @[i]]]

(***************************************************************************)
(* The digest primitive.  crypto.subtle.digest('SHA-256', buffer) is the   *)
(* platform's SHA-256 (FIPS 180-4), computed here on 32-bit words held as  *)
(* pairs of 16-bit numbers.                                                *)
(***************************************************************************)
\* the three-input functions of SHA-256 on numbers below 16 (one
\* hexadecimal digit): x XOR y XOR z, Ch(x, y, z) = (x AND y) XOR (NOT x
\* AND z) and Maj(x, y, z) = (x AND y) XOR (x AND z) XOR (y AND z)
NibbleTables ==
    LET Bit(n, k) == (n \div (2 ^ k)) % 2
        XorBit(a, b, c) == (a + b + c) % 2
        ChBit(e, f, g) == IF e = 1 THEN f ELSE g
        MajBit(a, b, c) == IF a + b + c >= 2 THEN 1 ELSE 0
        Table(F(_, _, _)) ==
            [a \in 0..15 |-> [b \in 0..15 |-> [c \in 0..15 |->
                F(Bit(a, 0), Bit(b, 0), Bit(c, 0))
                + 2 * F(Bit(a, 1), Bit(b, 1), Bit(c, 1))
                + 4 * F(Bit(a, 2), Bit(b, 2), Bit(c, 2))
                + 8 * F(Bit(a, 3), Bit(b, 3), Bit(c, 3))] @@ <<>>] @@ <<>>]
            @@ <<>>
    IN  [xor |-> Table(XorBit), ch |-> Table(ChBit), maj |-> Table(MajBit)]

\* the round constants K[0..63] and the initial hash value H(0) of SHA-256
\* (FIPS 180-4, 4.2.2 and 5.3.3); a 32-bit word is the pair of its high and
\* its low 16 bits
SHA256Constants ==
    [K |-> << <<17034, 12184>>, <<28983, 17553>>, <<46528, 64463>>, <<59829, 56229>>,
              <<14678, 49755>>, <<23025, 4593>>, <<37439, 33444>>, <<43804, 24277>>,
              <<55303, 43672>>, <<4739, 23297>>, <<9265, 34238>>, <<21772, 32195>>,
              <<29374, 23924>>, <<32990, 45566>>, <<39900, 1703>>, <<49563, 61812>>,
              <<58523, 27073>>, <<61374, 18310>>, <<4033, 40390>>, <<9228, 41420>>,
              <<11753, 11375>>, <<19060, 33962>>, <<23728, 43484>>, <<30457, 35034>>,
              <<38974, 20818>>, <<43057, 50797>>, <<45059, 10184>>, <<48985, 32711>>,
              <<50912, 3059>>, <<54695, 37191>>, <<1738, 25425>>, <<5161, 10599>>,
              <<10167, 2693>>, <<11803, 8504>>, <<19756, 28156>>, <<21304, 3347>>,
              <<25866, 29524>>, <<30314, 2747>>, <<33218, 51502>>, <<37490, 11397>>,
              <<41663, 59553>>, <<43034, 26187>>, <<49739, 35696>>, <<51052, 20899>>,
              <<53650, 59417>>, <<54937, 1572>>, <<62478, 13701>>, <<4202, 41072>>,
              <<6564, 49430>>, <<7735, 27656>>, <<10056, 30540>>, <<13488, 48309>>,
              <<14620, 3251>>, <<20184, 43594>>, <<23452, 51791>>, <<26670, 28659>>,
              <<29839, 33518>>, <<30885, 25455>>, <<33992, 30740>>, <<36039, 520>>,
              <<37054, 65530>>, <<42064, 27883>>, <<48889, 41975>>, <<50801, 30962>> >>,
     H |-> << <<27145, 58983>>, <<47975, 44677>>, <<15470, 62322>>, <<42319, 62778>>,
              <<20750, 21119>>, <<39685, 26764>>, <<8067, 55723>>, <<23520, 52505>> >>]

\* SHA-256 of a byte sequence (shorter than 2^20 bytes): the 32 bytes of
\* the digest
SHA256Of(bytes) ==
    LET \* a table applied to the hexadecimal digits of three words
        OnHalf(T, a, b, c) ==
            T[a \div 4096][b \div 4096][c \div 4096] * 4096
            + T[(a \div 256) % 16][(b \div 256) % 16][(c \div 256) % 16] * 256
            + T[(a \div 16) % 16][(b \div 16) % 16][(c \div 16) % 16] * 16
            + T[a % 16][b % 16][c % 16]
        OnWord(T, a, b, c) ==
            <<OnHalf(T, a[1], b[1], c[1]), OnHalf(T, a[2], b[2], c[2])>>
        Xor(a, b, c) == OnWord(NibbleTables.xor, a, b, c)
        \* ROTR by n < 16, with p = 2^n and q = 2^(16 - n)
        RotrLow(w, p, q) ==
            <<(w[1] \div p) + (w[2] % p) * q, (w[2] \div p) + (w[1] % p) * q>>
        \* ROTR^n(w), 0 < n < 32
        Rotr(w, n) ==
            IF n < 16 THEN RotrLow(w, 2 ^ n, 2 ^ (16 - n))
            ELSE IF n = 16 THEN <<w[2], w[1]>>
            ELSE RotrLow(<<w[2], w[1]>>, 2 ^ (n - 16), 2 ^ (32 - n))
        \* SHR^n(w), 0 < n < 16
        Shr(w, n) ==
            <<w[1] \div (2 ^ n),
              (w[2] \div (2 ^ n)) + (w[1] % (2 ^ n)) * (2 ^ (16 - n))>>
        \* sums of high and of low halves, modulo 2^32
        Carry(hi, lo) == <<(hi + (lo \div 65536)) % 65536, lo % 65536>>
        Add2(a, b) == Carry(a[1] + b[1], a[2] + b[2])
        Add4(a, b, c, d) ==
            Carry(a[1] + b[1] + c[1] + d[1], a[2] + b[2] + c[2] + d[2])
        Add5(a, b, c, d, e) ==
            Carry(a[1] + b[1] + c[1] + d[1] + e[1],
                  a[2] + b[2] + c[2] + d[2] + e[2])
        BigSigma0(a) == Xor(Rotr(a, 2), Rotr(a, 13), Rotr(a, 22))
        BigSigma1(e) == Xor(Rotr(e, 6), Rotr(e, 11), Rotr(e, 25))
        SmallSigma0(w) == Xor(Rotr(w, 7), Rotr(w, 18), Shr(w, 3))
        SmallSigma1(w) == Xor(Rotr(w, 17), Rotr(w, 19), Shr(w, 10))
        \* the message, the bit 1, zero bytes up to 56 modulo 64 and the
        \* length in bits as a 64-bit big-endian number
        padded ==
            bytes \o <<128>> \o [i \in 1..((119 - (Len(bytes) % 64)) % 64) |-> 0]
            \o <<0, 0, 0, 0, 0, ((Len(bytes) * 8) \div 65536) % 256,
                 ((Len(bytes) * 8) \div 256) % 256, (Len(bytes) * 8) % 256>>
        \* the sixteen words of the block that starts after offset bytes
        BlockWords(offset) ==
            [t \in 1..16 |->
                <<padded[offset + 4 * t - 3] * 256 + padded[offset + 4 * t - 2],
                  padded[offset + 4 * t - 1] * 256 + padded[offset + 4 * t]>>]
            @@ <<>>
        \* the message schedule W extended by k words
        RECURSIVE Schedule(_, _)
        Schedule(W, k) ==
            IF k = 0 THEN W
            ELSE IF k = 1
            THEN LET t == Len(W) + 1
                 IN  Append(W, Add4(SmallSigma1(W[t - 2]), W[t - 7],
                                    SmallSigma0(W[t - 15]), W[t - 16]))
            ELSE LET first == Schedule(W, k \div 2)
                 IN  IF Len(first) > 0 THEN Schedule(first, k - (k \div 2))
                     ELSE first
        \* one round of the compression function on the working variables
        Round(v, k, w) ==
            LET T1 == Add5(v[8], BigSigma1(v[5]),
                           OnWord(NibbleTables.ch, v[5], v[6], v[7]), k, w)
                T2 == Add2(BigSigma0(v[1]),
                           OnWord(NibbleTables.maj, v[1], v[2], v[3]))
            IN  <<Add2(T1, T2), v[1], v[2], v[3], Add2(v[4], T1), v[5], v[6],
                  v[7]>>
        \* rounds lo..hi
        RECURSIVE Rounds(_, _, _, _)
        Rounds(v, W, lo, hi) ==
            IF lo = hi THEN Round(v, SHA256Constants.K[lo], W[lo])
            ELSE LET mid == (lo + hi) \div 2
                     first == Rounds(v, W, lo, mid)
                 IN  IF Len(first) > 0 THEN Rounds(first, W, mid + 1, hi)
                     ELSE first
        \* the compression of one block into the hash value
        Compress(H, block) ==
            LET v == Rounds(H, Schedule(block, 48), 1, 64)
            IN  [i \in 1..8 |-> Add2(H[i], v[i])] @@ <<>>
        \* the hash value after blocks lo..hi of the padded message
        RECURSIVE Blocks(_, _, _)
        Blocks(H, lo, hi) ==
            IF lo > hi THEN H
            ELSE LET next == Compress(H, BlockWords(64 * (lo - 1)))
                 IN  IF Len(next) > 0 THEN Blocks(next, lo + 1, hi) ELSE next
        hash == Blocks(SHA256Constants.H, 1, Len(padded) \div 64)
    IN  [i \in 1..32 |->
            LET half == hash[(i + 3) \div 4][((i - 1) % 4) \div 2 + 1]
            IN  IF i % 2 = 1 THEN half \div 256 ELSE half % 256] @@ <<>>

HexDigits ==
    <<"0", "1", "2", "3", "4", "5", "6", "7", "8", "9", "a", "b", "c", "d",
      "e", "f">>

RECURSIVE ToString16(_)
\* Number.prototype.toString(16) of a natural number
ToString16(n) ==
    IF n < 16 THEN <<HexDigits[n + 1]>>
    ELSE ToString16(n \div 16) \o <<HexDigits[(n % 16) + 1]>>

RECURSIVE PadStart(_, _, _)
\* String.prototype.padStart(targetLength, padChar)
PadStart(chars, targetLength, padChar) ==
    IF Len(chars) >= targetLength THEN chars
    ELSE PadStart(<<padChar>> \o chars, targetLength, padChar)

\* hashArray.map(b => b.toString(16).padStart(2, '0')).join('')
HexString(bytes) ==
    Join([i \in 1..Len(bytes) |-> PadStart(ToString16(bytes[i]), 2, "0")])

\* the buffer generateSHA256 hands to the digest: data.buffer for a byte
\* array, the buffer of the encoded text for a string
digestBuffer(data) ==
    IF data.kind = "string" THEN TextEncoderEncode(data.chars).buffer
    ELSE data.buffer

\* `|NAME:${signerName}|CPF:${signerCPF}|DEVICE:${deviceId}|TIME:${timestamp}|`
\* written without the delimiter and label between the name and the CPF
signerPayloadUnlabelledCPF(signerName, signerCPF, deviceId, timestamp) ==
    <<"|", "N", "A", "M", "E", ":">> \o signerName \o signerCPF
    \o <<"|", "D", "E", "V", "I", "C", "E", ":">> \o deviceId
    \o <<"|", "T", "I", "M", "E", ":">> \o timestamp \o <<"|">>

\* the same template with the CPF and DEVICE fields in each other's place
signerPayloadSwapped(signerName, signerCPF, deviceId, timestamp) ==
    <<"|", "N", "A", "M", "E", ":">> \o signerName
    \o <<"|", "D", "E", "V", "I", "C", "E", ":">> \o deviceId
    \o <<"|", "C", "P", "F", ":">> \o signerCPF
    \o <<"|", "T", "I", "M", "E", ":">> \o timestamp \o <<"|">>

\* `|NAME:${signerName}|CPF:${signerCPF}|DEVICE:${deviceId}|TIME:${timestamp}|`
signerPayload(signerName, signerCPF, deviceId, timestamp) ==
    <<"|", "N", "A", "M", "E", ":">> \o signerName
    \o <<"|", "C", "P", "F", ":">> \o signerCPF
    \o <<"|", "D", "E", "V", "I", "C", "E", ":">> \o deviceId
    \o <<"|", "T", "I", "M", "E", ":">> \o timestamp \o <<"|">>

\* combinedBytes of generateSignatureHash: a new array of the two lengths,
\* the PDF bytes set at 0 and the encoded payload set after them
combinedBytes(pdfBytes, signerName, signerCPF, deviceId, timestamp) ==
    LET signerBytes ==
            TextEncoderEncode(signerPayload(signerName, signerCPF, deviceId,
                                            timestamp))
        size == pdfBytes.length + signerBytes.length
        zeroed == Uint8Array([i \in 1..size |-> 0], 0, size)
    IN  TypedArraySet(TypedArraySet(zeroed, pdfBytes, 0), signerBytes,
                      pdfBytes.length)

(***************************************************************************)
(* String functions of services/pdf.ts and utils/cpf.ts.                   *)
(***************************************************************************)
LowerCase ==
    <<"a", "b", "c", "d", "e", "f", "g", "h", "i", "j", "k", "l", "m", "n",
      "o", "p", "q", "r", "s", "t", "u", "v", "w", "x", "y", "z", "U+00E1",
      "U+00E3">>

UpperCase ==
    <<"A", "B", "C", "D", "E", "F", "G", "H", "I", "J", "K", "L", "M", "N",
      "O", "P", "Q", "R", "S", "T", "U", "V", "W", "X", "Y", "Z", "U+00C1",
      "U+00C3">>

\* String.prototype.toUpperCase
ToUpperCase(chars) ==
    [i \in 1..Len(chars) |->
        IF \E k \in 1..Len(LowerCase) : LowerCase[k] = chars[i]
        THEN UpperCase[CHOOSE k \in 1..Len(LowerCase) : LowerCase[k] = chars[i]]
        ELSE chars[i]]

\* String.prototype.substring(start, end): both clamped to the string, and
\* exchanged when start is the larger
Substring(chars, start, end) ==
    LET clamp(n) == IF n < 0 THEN 0 ELSE IF n > Len(chars) THEN Len(chars) ELSE n
        a == IF clamp(start) <= clamp(end) THEN clamp(start) ELSE clamp(end)
        b == IF clamp(start) <= clamp(end) THEN clamp(end) ELSE clamp(start)
    IN  SubSeq(chars, a + 1, b)

RECURSIVE NumberToString(_)
\* the decimal text of a natural number
NumberToString(n) ==
    IF n < 10 THEN <<HexDigits[n + 1]>>
    ELSE NumberToString(n \div 10) \o <<HexDigits[(n % 10) + 1]>>

\* the 2-character groups of a string, joined with '-' (the last group has 1
\* character when the length is odd)
formatHashTotvsOfPairs(upper) ==
    Join([k \in 1..((Len(upper) + 1) \div 2) |->
            (IF k = 1 THEN <<>> ELSE <<"-">>)
            \o SubSeq(upper, 2 * k - 1,
                      IF 2 * k <= Len(upper) THEN 2 * k ELSE Len(upper))])

\* a formatHashTotvs that leaves the case of the characters as it is
formatHashTotvsAsIs(hash) ==
    LET joined == formatHashTotvsOfPairs(hash)
    IN  IF joined = <<>> THEN hash ELSE joined

\* formatHashTotvs: hash.toUpperCase().match(/.{1,2}/g)?.join('-') || hash
formatHashTotvs(hash) ==
    LET joined == formatHashTotvsOfPairs(ToUpperCase(hash))
    IN  IF joined = <<>> THEN hash ELSE joined

\* generateTotvsHash with the first 16 bytes in place of the first 20
generateTotvsHash16(hash) == formatHashTotvs(Substring(hash, 0, 32))

\* generateTotvsHash: the first 20 bytes (40 hex characters), formatted
generateTotvsHash(hash) == formatHashTotvs(Substring(hash, 0, 40))

\* an abbreviateHash without the test for short strings
abbreviateHashAlways(hash, length) ==
    Substring(hash, 0, length) \o <<".", ".", ".">>
    \o Substring(hash, Len(hash) - length, Len(hash))

\* abbreviateHash(hash, length)
abbreviateHash(hash, length) ==
    IF Len(hash) <= length * 2 + 3 THEN hash
    ELSE Substring(hash, 0, length) \o <<".", ".", ".">>
         \o Substring(hash, Len(hash) - length, Len(hash))

IsDigit(c) == c \in {"0", "1", "2", "3", "4", "5", "6", "7", "8", "9"}

\* normalizeCPF: cpf.replace(/\D/g, '')
normalizeCPF(cpf) == SelectSeq(cpf, IsDigit)

\* formatCPF: XXX.XXX.XXX-XX for 11 digits, the argument itself otherwise
formatCPF(cpf) ==
    LET clean == normalizeCPF(cpf)
    IN  IF Len(clean) # 11 THEN cpf
        ELSE SubSeq(clean, 1, 3) \o <<".">> \o SubSeq(clean, 4, 6) \o <<".">>
             \o SubSeq(clean, 7, 9) \o <<"-">> \o SubSeq(clean, 10, 11)

\* fileName.replace(/\.pdf$/i, '')
StripPdfSuffix(fileName) ==
    LET n == Len(fileName)
    IN  IF n >= 4 /\ ToUpperCase(SubSeq(fileName, n - 3, n)) = <<".", "P", "D", "F">>
        THEN SubSeq(fileName, 1, n - 4)
        ELSE fileName

RECURSIVE ParseNumber(_)
\* the number a decimal numeral denotes
ParseNumber(digits) ==
    IF digits = <<>> THEN 0
    ELSE ParseNumber(SubSeq(digits, 1, Len(digits) - 1)) * 10
         + (CHOOSE d \in 0..9 : NumberToString(d) = <<digits[Len(digits)]>>)

\* the k-th value crypto.randomUUID() returns
UUID(k) == <<"u", "u", "i", "d", "-">> \o NumberToString(k)

\* \s of a regular expression, among the characters of the model
IsSpace(c) == c \in {" ", "U+0009", "U+00A0"}

\* String.prototype.trim()
Trim(s) ==
    LET solid == {i \in 1..Len(s) : ~IsSpace(s[i])}
    IN  IF solid = {} THEN <<>>
        ELSE SubSeq(s, CHOOSE i \in solid : \A j \in solid : i <= j,
                       CHOOSE i \in solid : \A j \in solid : i >= j)

\* replace(/\s+/g, ' ')
CollapseSpaces(s) ==
    LET keep == {i \in 1..Len(s) : ~IsSpace(s[i]) \/ i = 1 \/ ~IsSpace(s[i - 1])}
        place(k) == CHOOSE i \in keep : Cardinality({j \in keep : j <= i}) = k
    IN  [k \in 1..Cardinality(keep) |->
            IF IsSpace(s[place(k)]) THEN " " ELSE s[place(k)]]

\* a normalizeName that leaves the runs of whitespace inside the name
normalizeNameNoCollapse(name) == ToUpperCase(Trim(name))

\* normalizeName(name)
normalizeName(name) == ToUpperCase(CollapseSpaces(Trim(name)))

RECURSIVE WeightedSum(_, _, _)
\* for (i = 0; i < n; i++) sum += parseInt(cleanCPF.charAt(i)) * (weight - i)
WeightedSum(cleanCPF, n, weight) ==
    IF n = 0 THEN 0
    ELSE WeightedSum(cleanCPF, n - 1, weight)
         + ParseNumber(<<cleanCPF[n]>>) * (weight - (n - 1))

\* remainder = (sum * 10) % 11, with 10 and 11 taken as 0
CheckDigit(sum) ==
    LET remainder == (sum * 10) % 11
    IN  IF remainder = 10 \/ remainder = 11 THEN 0 ELSE remainder

\* validateCPF(cpf)
validateCPF(cpf) ==
    LET cleanCPF == SelectSeq(cpf, IsDigit)
    IN  /\ Len(cleanCPF) = 11
        /\ \E i \in 1..11 : cleanCPF[i] # cleanCPF[1]
        /\ CheckDigit(WeightedSum(cleanCPF, 9, 10))
              = ParseNumber(<<cleanCPF[10]>>)
        /\ CheckDigit(WeightedSum(cleanCPF, 10, 11))
              = ParseNumber(<<cleanCPF[11]>>)

\* signerFormSchema: whether the form values are accepted
signerFormSchema(data) ==
    /\ Len(data.name) >= 5
    /\ Len(data.name) <= 100
    /\ Len(Trim(data.name)) >= 5
    /\ Len(data.cpf) >= 11
    /\ validateCPF(data.cpf)

(***************************************************************************)
(* The documents, forms and ledgers of the specifications.                 *)
(***************************************************************************)
\* the most calls of crypto.randomUUID
MaxUuids == 4
\* the latest time of the clock
MaxClock == 1

\* '%PDF-'
PdfMagic == <<37, 80, 68, 70, 45>>

\* the files the user has: two with the same name, size and modification
\* time and different contents, another document, and one pdf-lib cannot parse
FileSet ==
    {[name |-> <<"c", "o", "n", "t", "r", "a", "t", "o", ".", "P", "D", "F">>,
      type |-> "application/pdf", lastModified |-> 1000,
      contents |-> PdfMagic \o <<49>>, parses |-> TRUE],
     [name |-> <<"c", "o", "n", "t", "r", "a", "t", "o", ".", "P", "D", "F">>,
      type |-> "application/pdf", lastModified |-> 1000,
      contents |-> PdfMagic \o <<50>>, parses |-> TRUE],
     [name |-> <<"b", ".", "p", "d", "f">>,
      type |-> "application/pdf", lastModified |-> 2000,
      contents |-> PdfMagic \o <<49, 50>>, parses |-> TRUE],
     [name |-> <<"c", ".", "p", "d", "f">>,
      type |-> "application/pdf", lastModified |-> 3000,
      contents |-> PdfMagic, parses |-> FALSE]}

\* what the signer form submits: values signerFormSchema accepts
FormSet ==
    {[name |-> <<" ", " ", "a", "n", "a", " ", " ", "l", "i", "m", "a", " ">>,
      cpf |-> <<"5", "2", "9", ".", "9", "8", "2", ".", "2", "4", "7",
                "-", "2", "5">>],
     [name |-> <<"B", "r", "u", "n", "o", " ", "S", "a">>,
      cpf |-> <<"1", "1", "1", "4", "4", "4", "7", "7", "7", "3", "5">>]}

\* the values handleSubmit passes on to onSubmit: those the schema accepts
AcceptedForms == {data \in FormSet : signerFormSchema(data)}

\* the document bytes: a whole buffer, and a view over a larger buffer
FinalizeBytes == {Uint8Array(<<37, 80>>, 0, 2), Uint8Array(<<124, 37, 80>>, 1, 2)}

\* the ISO timestamp of the k-th second of 2024-01-15T10:30
Timestamp(k) ==
    <<"2", "0", "2", "4", "-", "0", "1", "-", "1", "5", "T", "1",
      "0", ":", "3", "0", ":">>
    \o PadStart(NumberToString(k), 2, "0") \o <<".", "0", "0", "0", "Z">>

\* what the k-th signer of a ledger of n signatures has signed with, in
\* ledger order ("asc") or with timestamps that run backwards
SignerFields(k, n, order) ==
    [name |-> <<"A", "N", "A", " ">> \o NumberToString(k),
     cpf |-> <<"5", "2", "9", "9", "8", "2", "2", "4", "7", "2", "5">>,
     deviceId |-> <<"d", "e", "v", "-", "1">>,
     timestamp |-> Timestamp(IF order = "asc" THEN k ELSE n + 1 - k)]

(***************************************************************************)
(* The digests of the buffers the session and the finalize operation hash, *)
(* computed once: SHA256 is SHA256Of, looked up for these buffers.         *)
(***************************************************************************)
\* the buffers generateSignatureHash builds in a session (a loaded file, an
\* accepted form, a device id and a time of the clock), the buffers hashed
\* for the ledgers handed to finalize, and the buffers of the documents
KnownBuffers ==
    {combinedBytes(Uint8Array(file.contents, 0, Len(file.contents)),
                   normalizeName(data.name), normalizeCPF(data.cpf),
                   UUID(u), Timestamp(t)).buffer :
        file \in FileSet, data \in AcceptedForms, u \in 1..MaxUuids,
        t \in 0..MaxClock}
    \cup {combinedBytes(b, SignerFields(k, k + j - 1, "desc").name,
                        SignerFields(k, k + j - 1, "desc").cpf,
                        SignerFields(k, k + j - 1, "desc").deviceId,
                        SignerFields(k, k + j - 1, "desc").timestamp).buffer :
            b \in FinalizeBytes, k \in 1..MaxSigners, j \in 1..MaxSigners}
    \cup {b.buffer : b \in FinalizeBytes}

KnownDigests == [bytes \in KnownBuffers |-> SHA256Of(bytes)] @@ <<>>

\* crypto.subtle.digest('SHA-256', buffer): the 32 bytes of the digest
SHA256(bytes) ==
    IF bytes \in KnownBuffers THEN KnownDigests[bytes] ELSE SHA256Of(bytes)

\* generateSHA256: the digest of the buffer, in lower-case hex
generateSHA256(data) == HexString(SHA256(digestBuffer(data)))

generateSignatureHash(pdfBytes, signerName, signerCPF, deviceId, timestamp) ==
    generateSHA256(combinedBytes(pdfBytes, signerName, signerCPF, deviceId,
                                 timestamp))

\* documentHash of finalizePDFWithProtocol: the digest of pdfBytes.buffer
documentHash(pdfBytes) == HexString(SHA256(pdfBytes.buffer))

(***************************************************************************)
(* The hash functions applied to bounded arguments.                        *)
(***************************************************************************)
\* contents of a document: "%", "%|NAME:1", "%%", the empty document
DocContents ==
    {<<>>, <<37>>, <<37, 37>>, <<37, 124, 78, 65, 77, 69, 58, 49>>}

\* byte runs of the underlying buffer outside a view
PadRuns == UNION {[1..n -> {124}] : n \in 0..MaxPad}

\* the byte arrays over a content: the content at any place of a larger buffer
ViewsOf(content) ==
    {Uint8Array(pre \o content \o post, Len(pre), Len(content)) :
        pre \in PadRuns, post \in PadRuns}

NameSet ==
    {<<"1">>, <<"1", "1">>, <<"J", "O", "U+00C3", "O">>,
     <<"1", "|", "N", "A", "M", "E", ":", "1">>,
     <<"1", "|", "C", "P", "F", ":", "1">>}

CpfSet == {<<"1">>, <<"1", "1">>, <<"1", "|", "C", "P", "F", ":", "1">>}

DeviceSet == {<<"d">>, <<"e">>}

TimeSet == {<<"T">>, <<"Z">>}

NoResult == [op |-> "none", hash |-> <<>>]

NoArguments ==
    [pdfBytes |-> Uint8Array(<<>>, 0, 0), name |-> <<>>, cpf |-> <<>>,
     deviceId |-> <<>>, timestamp |-> <<>>]

DigestIdle == dIn = NoArguments /\ dOut = NoResult

PayloadIdle == pA = NoArguments /\ pB = NoArguments /\ pOut = <<>>

FinalizeIdle ==
    /\ fIn = [pdfBytes |-> Uint8Array(<<>>, 0, 0), loadable |-> FALSE,
              pages |-> <<>>, log |-> <<>>]
    /\ fHeap = <<>>
    /\ fLoop = 0
    /\ fPc = "idle"
    /\ fPages = <<>>
    /\ fHash = <<>>
    /\ fSize = <<0, 0>>
    /\ fY = 0
    /\ fNext = 0
    /\ fStamp = 0
    /\ fOut = [status |-> "none", pages |-> <<>>]

\* null, and a value that is not null
Null == <<>>

Some(v) == <<v>>

\* the state of App before its first render: the useState initial values
InitialState ==
    [deviceId |-> <<>>, currentFile |-> Null, pdfBytes |-> Null,
     signatureLog |-> Null, isLoading |-> FALSE, isDownloading |-> FALSE]

AppIdle ==
    /\ state = InitialState
    /\ rendered = InitialState
    /\ mounted = FALSE
    /\ localStorage = [pdf_signature_device_id |-> Null,
                       pdf_signature_current_log |-> Null]
    /\ selectCall = <<>>
    /\ signCalls = <<>>
    /\ downloadCalls = <<>>
    /\ clock = 0
    /\ uuidCount = 0
    /\ lastSign = Null
    /\ lastDownload = Null
    /\ lastSelect = Null
    /\ created = <<>>

LedgerIdle == lHeap = <<>> /\ lCall = Null

UtilIdle == uIn = <<>> /\ uPc = "idle" /\ uOut = <<>>

DigestInit ==
    /\ dIn \in [pdfBytes : UNION {ViewsOf(c) : c \in DocContents},
                name : NameSet, cpf : CpfSet, deviceId : DeviceSet,
                timestamp : TimeSet]
    /\ dOut = NoResult
    /\ PayloadIdle
    /\ FinalizeIdle
    /\ AppIdle
    /\ LedgerIdle
    /\ UtilIdle

\* generateSHA256(pdfBytes)
CallGenerateSHA256 ==
    /\ dOut.op = "none"
    /\ dOut' = [op |-> "generateSHA256", hash |-> generateSHA256(dIn.pdfBytes)]
    /\ UNCHANGED <<dIn, payloadVars, finalizeVars, appVars, ledgerVars,
                   utilVars>>

\* generateSHA256(name), a string argument
CallGenerateSHA256OfString ==
    /\ dOut.op = "none"
    /\ dOut' = [op |-> "generateSHA256OfString",
                hash |-> generateSHA256(JSString(dIn.name))]
    /\ UNCHANGED <<dIn, payloadVars, finalizeVars, appVars, ledgerVars,
                   utilVars>>

\* generateSignatureHash(pdfBytes, name, cpf, deviceId, timestamp)
CallGenerateSignatureHash ==
    /\ dOut.op = "none"
    /\ dOut' = [op |-> "generateSignatureHash",
                hash |-> generateSignatureHash(dIn.pdfBytes, dIn.name, dIn.cpf,
                                               dIn.deviceId, dIn.timestamp)]
    /\ UNCHANGED <<dIn, payloadVars, finalizeVars, appVars, ledgerVars,
                   utilVars>>

\* the digest step of finalizePDFWithProtocol(pdfBytes, ...)
CallDocumentHash ==
    /\ dOut.op = "none"
    /\ dOut' = [op |-> "documentHash", hash |-> documentHash(dIn.pdfBytes)]
    /\ UNCHANGED <<dIn, payloadVars, finalizeVars, appVars, ledgerVars,
                   utilVars>>

DigestNext ==
    \/ CallGenerateSHA256
    \/ CallGenerateSHA256OfString
    \/ CallGenerateSignatureHash
    \/ CallDocumentHash

SpecDigest == DigestInit /\ [][DigestNext]_vars

\* C6: the whole-document digest of finalizePDFWithProtocol, and generateSHA256
\* of a byte array, is the SHA-256 of exactly the elements of the array, also
\* for an array that is a view over a larger buffer.
C6_DigestOfViewBytes ==
    dOut.op \in {"generateSHA256", "documentHash"}
        => dOut.hash = HexString(SHA256(ViewBytes(dIn.pdfBytes)))

\* C7: generateSignatureHash returns the digest of the document's bytes
\* followed by the UTF-8 bytes of "|NAME:" name "|CPF:" taxId "|DEVICE:"
\* deviceToken "|TIME:" signedAt "|", a function of these five values alone.
C7_SignatureHashIsDigestOfPayload ==
    dOut.op = "generateSignatureHash"
        => dOut.hash =
            HexString(SHA256(
                ViewBytes(dIn.pdfBytes)
                \o TextEncoderEncode(
                       <<"|", "N", "A", "M", "E", ":">> \o dIn.name
                       \o <<"|", "C", "P", "F", ":">> \o dIn.cpf
                       \o <<"|", "D", "E", "V", "I", "C", "E", ":">>
                       \o dIn.deviceId
                       \o <<"|", "T", "I", "M", "E", ":">> \o dIn.timestamp
                       \o <<"|">>).buffer))

\* a signature hash computed over a view into a larger buffer, for a name
\* with a character of two UTF-8 bytes
C7_Witness ==
    /\ dOut.op = "generateSignatureHash"
    /\ dIn.pdfBytes.byteOffset > 0
    /\ dIn.pdfBytes.length > 0
    /\ Len(dIn.pdfBytes.buffer) > dIn.pdfBytes.byteOffset + dIn.pdfBytes.length
    /\ \E i \in 1..Len(dIn.name) : CodePoint(dIn.name[i]) > 127

(***************************************************************************)
(* The byte sequences generateSignatureHash hashes for two argument tuples.*)
(***************************************************************************)
PayloadArguments ==
    [pdfBytes : {Uint8Array(c, 0, Len(c)) : c \in DocContents},
     name : NameSet, cpf : CpfSet, deviceId : DeviceSet, timestamp : TimeSet]

PayloadInit ==
    /\ pA \in PayloadArguments
    /\ pB \in PayloadArguments
    /\ pOut = <<>>
    /\ DigestIdle
    /\ FinalizeIdle
    /\ AppIdle
    /\ LedgerIdle
    /\ UtilIdle

\* the bytes generateSignatureHash hands to the digest for an argument tuple
HashedBytes(a) ==
    digestBuffer(combinedBytes(a.pdfBytes, a.name, a.cpf, a.deviceId,
                               a.timestamp))

\* generateSignatureHash is called with pA and with pB
CallBothSignatureHashes ==
    /\ pOut = <<>>
    /\ pOut' = <<HashedBytes(pA), HashedBytes(pB)>>
    /\ UNCHANGED <<pA, pB, digestVars, finalizeVars, appVars, ledgerVars,
                   utilVars>>

PayloadNext == CallBothSignatureHashes

SpecPayload == PayloadInit /\ [][PayloadNext]_vars

HasPipe(chars) == \E i \in 1..Len(chars) : chars[i] = "|"

TuplesDiffer(a, b) ==
    \/ ViewBytes(a.pdfBytes) # ViewBytes(b.pdfBytes)
    \/ a.name # b.name
    \/ a.cpf # b.cpf
    \/ a.deviceId # b.deviceId
    \/ a.timestamp # b.timestamp

\* C8 as claimed: any two argument tuples that differ in a component are
\* hashed as different byte sequences, whatever the document and name contain.
C8_PayloadUnambiguous ==
    (pOut # <<>> /\ TuplesDiffer(pA, pB)) => pOut[1] # pOut[2]

\* C8 as amended: two argument tuples that differ in a component are hashed
\* as different byte sequences when no taxId, deviceToken or signedAt holds a
\* '|' and the two documents have the same length or neither name holds '|'.
C8_PayloadUnambiguousWithoutPipes ==
    ( /\ pOut # <<>>
      /\ TuplesDiffer(pA, pB)
      /\ \A a \in {pA, pB} :
            ~HasPipe(a.cpf) /\ ~HasPipe(a.deviceId) /\ ~HasPipe(a.timestamp)
      /\ \/ pA.pdfBytes.length = pB.pdfBytes.length
         \/ ~HasPipe(pA.name) /\ ~HasPipe(pB.name) )
        => pOut[1] # pOut[2]

\* two tuples over a document that holds "|NAME:", whose names and CPFs differ
\* but concatenate to the same text, have been hashed
C8_Witness ==
    /\ pOut # <<>>
    /\ pA.name # pB.name
    /\ pA.name \o pA.cpf = pB.name \o pB.cpf
    /\ ~HasPipe(pA.name \o pA.cpf)
    /\ pA.pdfBytes = pB.pdfBytes
    /\ \E i \in 1..pA.pdfBytes.length : ViewBytes(pA.pdfBytes)[i] = 124
    /\ pA.deviceId = pB.deviceId
    /\ pA.timestamp = pB.timestamp

(***************************************************************************)
(* Page geometry and the drawing operations of services/pdf.ts.  A page is *)
(* a record: made is 0 for a page of the source document and k for the     *)
(* k-th page the protocol builder created, src is the page's place in the  *)
(* source document (0 for a created page), ops are the drawing operations  *)
(* on the page, in the order they were made.  A drawing operation names    *)
(* the call that made it (kind), its y coordinate, the signature it is     *)
(* about (sig, 0 for none) and the text drawn.  The three texts formatted  *)
(* by the platform (toLocaleString, toFixed) hold the text before the      *)
(* formatted value only.                                                   *)
(***************************************************************************)
\* PROTOCOL_CONFIG and HEADER_CONFIG, in points
MARGIN == 50
LINE_HEIGHT == 14
SECTION_SPACING == 20
MARGIN_TOP == 15
BG_HEIGHT == 18

\* a length in points, in hundredths of a point
Pt(n) == n * 100

\* PageSizes.A4 of pdf-lib: [595.28, 841.89]
A4 == <<59528, 84189>>

RECURSIVE CountSizes(_, _)
\* the loop over the pages that fills sizeFrequency: the entries of the Map in
\* insertion order, each a size and its count
CountSizes(sizes, sizeFrequency) ==
    IF sizes = <<>> THEN sizeFrequency
    ELSE LET size == Head(sizes)
             has == \E k \in 1..Len(sizeFrequency) : sizeFrequency[k].size = size
         IN  CountSizes(
                 Tail(sizes),
                 IF has
                 THEN [k \in 1..Len(sizeFrequency) |->
                        IF sizeFrequency[k].size = size
                        THEN [sizeFrequency[k] EXCEPT !.count = @ + 1]
                        ELSE sizeFrequency[k]]
                 ELSE Append(sizeFrequency, [size |-> size, count |-> 1]))

RECURSIVE MostCommonLast(_, _, _)
\* a loop that keeps the last entry whose count reaches maxCount
MostCommonLast(entries, mostCommonSize, maxCount) ==
    IF entries = <<>> THEN mostCommonSize
    ELSE IF Head(entries).count >= maxCount
         THEN MostCommonLast(Tail(entries), Head(entries).size,
                             Head(entries).count)
         ELSE MostCommonLast(Tail(entries), mostCommonSize, maxCount)

RECURSIVE MostCommon(_, _, _)
\* the loop over sizeFrequency.values() that keeps the first entry whose count
\* exceeds maxCount
MostCommon(entries, mostCommonSize, maxCount) ==
    IF entries = <<>> THEN mostCommonSize
    ELSE IF Head(entries).count > maxCount
         THEN MostCommon(Tail(entries), Head(entries).size, Head(entries).count)
         ELSE MostCommon(Tail(entries), mostCommonSize, maxCount)

\* detectOriginalPageSize(pdfDoc), of the sizes of the document's pages
detectOriginalPageSize(sizes) ==
    IF Len(sizes) = 0 THEN A4
    ELSE IF Len(sizes) = 1 THEN sizes[1]
    ELSE MostCommon(CountSizes(sizes, <<>>), <<0, 0>>, 0)

\* an insertPage that only adds a page at the front of the document
insertPageOnlyAtFront(pages, index, page) ==
    IF index = 0 THEN <<page>> \o pages ELSE pages

\* pdfDoc.insertPage(index, size), for the pages and a new page
insertPage(pages, index, page) ==
    SubSeq(pages, 1, index) \o <<page>> \o SubSeq(pages, index + 1, Len(pages))

\* protocolPage.drawText(...), drawLine(...) and drawRectangle(...): the
\* operations are added to the page the builder made as its k-th
DrawOnPage(pages, made, ops) ==
    [k \in 1..Len(pages) |->
        IF pages[k].made = made THEN [pages[k] EXCEPT !.ops = @ \o ops]
        ELSE pages[k]]

\* the helper drawText of createProtocolPage: the text at the cursor, then
\* y -= LINE_HEIGHT
TextItem(kind, sig, text) ==
    [op |-> "text", kind |-> kind, sig |-> sig, text |-> text, dy |-> 0,
     adv |-> Pt(LINE_HEIGHT)]

\* the helper drawLine of createProtocolPage: the rule at the cursor, then
\* y -= 10
LineItem ==
    [op |-> "line", kind |-> "rule", sig |-> 0, text |-> <<>>, dy |-> 0,
     adv |-> Pt(10)]

\* y -= n
SkipItem(n) ==
    [op |-> "skip", kind |-> "skip", sig |-> 0, text |-> <<>>, dy |-> 0,
     adv |-> Pt(n)]

\* a drawing at dy from the cursor that leaves the cursor where it is
FixedItem(op, kind, text, dy) ==
    [op |-> op, kind |-> kind, sig |-> 0, text |-> text, dy |-> Pt(dy),
     adv |-> 0]

RECURSIVE Advance(_, _, _)
\* how far the cursor moves down over items[lo], ..., items[hi]
Advance(items, lo, hi) ==
    IF lo > hi THEN 0
    ELSE IF lo = hi THEN items[lo].adv
    ELSE LET mid == (lo + hi) \div 2
         IN  Advance(items, lo, mid) + Advance(items, mid + 1, hi)

\* the drawing operations of a run of items that starts with the cursor at y
DrawingOps(items, y) ==
    LET placed == [k \in 1..Len(items) |->
                     [op |-> items[k].op, kind |-> items[k].kind,
                      sig |-> items[k].sig, text |-> items[k].text,
                      y |-> y - Advance(items, 1, k - 1) + items[k].dy]]
        IsDrawn(o) == o.op # "skip"
    IN  SelectSeq(placed, IsDrawn)

\* createProtocolPage, lines 232-273: the title, the document section, the
\* heading of the signatures and the line of a ledger without signatures
HeadItems(signatureLog, hash) ==
    <<TextItem("title", 0,
        <<"P", "r", "o", "t", "o", "c", "o", "l", "o", " ", "d", "e",
          " ", "A", "s", "s", "i", "n", "a", "t", "u", "r", "a", "s">>),
      SkipItem(5), LineItem, SkipItem(10),
      TextItem("documento", 0, <<"D", "o", "c", "u", "m", "e", "n", "t", "o">>),
      SkipItem(5),
      TextItem("envelope", 0,
        <<"N", "o", "m", "e", " ", "d", "o", " ", "e", "n", "v", "e",
          "l", "o", "p", "e", ":", " ">>
        \o StripPdfSuffix(signatureLog.pdfMetadata.fileName)),
      TextItem("autor", 0,
        <<"A", "u", "t", "o", "r", ":", " ">>
        \o (IF Len(signatureLog.signatures) > 0
            THEN signatureLog.signatures[1].name
            ELSE <<"S", "i", "s", "t", "e", "m", "a", " ", "L", "o", "c", "a", "l">>)),
      TextItem("status", 0,
        <<"S", "t", "a", "t", "u", "s", ":", " ">>
        \o (IF Len(signatureLog.signatures) > 0
            THEN <<"F", "i", "n", "a", "l", "i", "z", "a", "d", "o">>
            ELSE <<"P", "e", "n", "d", "e", "n", "t", "e">>)),
      TextItem("docHashTotvs", 0,
        <<"H", "A", "S", "H", " ", "T", "O", "T", "V", "S", ":", " ">>
        \o generateTotvsHash(hash)),
      TextItem("docSHA256", 0,
        <<"S", "H", "A", "2", "5", "6", ":", " ">> \o hash),
      SkipItem(SECTION_SPACING), LineItem, SkipItem(10),
      TextItem("assinaturas", 0,
        <<"A", "s", "s", "i", "n", "a", "t", "u", "r", "a", "s">>),
      SkipItem(5)>>
    \o (IF Len(signatureLog.signatures) = 0
        THEN <<TextItem("nenhuma", 0,
        <<"N", "e", "n", "h", "u", "m", "a", " ", "a", "s", "s", "i",
          "n", "a", "t", "u", "r", "a", " ", "r", "e", "g", "i", "s",
          "t", "r", "a", "d", "a", ".">>)>>
        ELSE <<>>)

\* createProtocolPage, lines 284-311: the entry of the k-th signature
SignatureItems(signature, k) ==
    <<TextItem("sigNome", k,
        <<"N", "o", "m", "e", ":", " ">> \o signature.name
        \o <<" ", "-", " ", "C", "P", "F", "/", "C", "N", "P", "J", ":", " ">>
        \o formatCPF(signature.cpf)),
      TextItem("sigData", k, <<"D", "a", "t", "a", ":", " ">>),
      TextItem("sigStatus", k,
        <<"S", "t", "a", "t", "u", "s", ":", " ", "A", "s", "s", "i",
          "n", "a", "d", "o", " ", "e", "l", "e", "t", "r", "o", "n",
          "i", "c", "a", "m", "e", "n", "t", "e">>),
      TextItem("sigTipo", k,
        <<"T", "i", "p", "o", " ", "d", "e", " ", "A", "u", "t", "e",
          "n", "t", "i", "c", "a", "U+00E7", "U+00E3", "o", ":", " ",
          "U", "t", "i", "l", "i", "z", "a", "n", "d", "o", " ", "i",
          "d", "e", "n", "t", "i", "f", "i", "c", "a", "d", "o", "r",
          " ", "U+00FA", "n", "i", "c", "o", " ", "d", "o", " ", "d",
          "i", "s", "p", "o", "s", "i", "t", "i", "v", "o">>),
      TextItem("sigDevice", k,
        <<"D", "e", "v", "i", "c", "e", " ", "I", "D", ":", " ">>
        \o signature.deviceId),
      TextItem("sigHash", k,
        <<"H", "a", "s", "h", " ", "d", "a", " ", "A", "s", "s", "i",
          "n", "a", "t", "u", "r", "a", ":", " ">>
        \o abbreviateHash(signature.hash, 16)),
      SkipItem(10)>>

\* createProtocolPage, lines 315-356: the Authenticity section
AuthenticityItems(signatureLog, hash) ==
    <<SkipItem(SECTION_SPACING), LineItem, SkipItem(10),
      TextItem("autenticidade", 0,
        <<"A", "u", "t", "e", "n", "t", "i", "c", "i", "d", "a", "d", "e">>),
      SkipItem(5),
      TextItem("autVerificar", 0,
        <<"P", "a", "r", "a", " ", "v", "e", "r", "i", "f", "i", "c",
          "a", "r", " ", "a", " ", "a", "u", "t", "e", "n", "t", "i",
          "c", "i", "d", "a", "d", "e", " ", "d", "o", " ", "d", "o",
          "c", "u", "m", "e", "n", "t", "o", ",", " ", "u", "t", "i",
          "l", "i", "z", "e", " ", "o", " ", "h", "a", "s", "h", " ",
          "a", "b", "a", "i", "x", "o", ":">>),
      SkipItem(5),
      FixedItem("rect", "autBox", <<>>, -25),
      FixedItem("text", "autHashTotvs",
        <<"H", "A", "S", "H", " ", "T", "O", "T", "V", "S", ":", " ">>
        \o generateTotvsHash(hash), -25 + 10),
      SkipItem(25 + 20),
      TextItem("autAssinado", 0,
        <<"E", "s", "t", "e", " ", "d", "o", "c", "u", "m", "e", "n",
          "t", "o", " ", "f", "o", "i", " ", "a", "s", "s", "i", "n",
          "a", "d", "o", " ", "e", "l", "e", "t", "r", "o", "n", "i",
          "c", "a", "m", "e", "n", "t", "e", ".">>),
      TextItem("autGerado", 0,
        <<"G", "e", "r", "a", "d", "o", " ", "e", "m", ":", " ">>),
      SkipItem(20),
      TextItem("autArquivo", 0,
        <<"A", "r", "q", "u", "i", "v", "o", " ", "o", "r", "i", "g",
          "i", "n", "a", "l", ":", " ">>
        \o signatureLog.pdfMetadata.fileName),
      TextItem("autTamanho", 0,
        <<"T", "a", "m", "a", "n", "h", "o", ":", " ">>),
      TextItem("autTotal", 0,
        <<"T", "o", "t", "a", "l", " ", "d", "e", " ", "a", "s", "s",
          "i", "n", "a", "t", "u", "r", "a", "s", ":", " ">>
        \o NumberToString(Len(signatureLog.signatures)))>>

\* the page number text with the index of the page counted from 0
pageTextFromZero(i, count) ==
    <<"P", "U+00E1", "g", "i", "n", "a", " ">> \o NumberToString(i)
    \o <<" ", "d", "e", " ">> \o NumberToString(count)

\* `Página ${i + 1} de ${pages.length}`
pageText(i, count) ==
    <<"P", "U+00E1", "g", "i", "n", "a", " ">> \o NumberToString(i + 1)
    \o <<" ", "d", "e", " ">> \o NumberToString(count)

\* drawHashHeaderOnAllPages, lines 136-170: the bar, the hash text and the
\* page number drawn on pages[i] (i from 0) of a page of the given height
HeaderOps(i, count, height, hash) ==
    <<[op |-> "rect", kind |-> "headerBar", sig |-> 0, text |-> <<>>,
       y |-> height - Pt(BG_HEIGHT)],
      [op |-> "text", kind |-> "headerHash", sig |-> 0,
       text |-> <<"H", "A", "S", "H", ":", " ">> \o generateTotvsHash(hash),
       y |-> height - Pt(MARGIN_TOP)],
      [op |-> "text", kind |-> "headerPage", sig |-> 0,
       text |-> pageText(i, count), y |-> height - Pt(MARGIN_TOP)]>>

(***************************************************************************)
(* finalizePDFWithProtocol(pdfBytes, signatureLog), step by step.          *)
(***************************************************************************)
\* the page sizes of source documents: 600x800, 612x792, 300x400, 200x240
\* and 100x100
SourceSizes ==
    {<<60000, 80000>>, <<61200, 79200>>, <<30000, 40000>>, <<20000, 24000>>,
     <<10000, 10000>>}

SourcePageLists == UNION {[1..n -> SourceSizes] : n \in 0..MaxSrcPages}

\* the record of the k-th signer of a ledger of n signatures over pdfBytes
SignerRecord(pdfBytes, k, n, order) ==
    LET signer == SignerFields(k, n, order)
    IN  [id |-> <<"s", "i", "g", "-">> \o NumberToString(k),
         name |-> signer.name, cpf |-> signer.cpf,
         deviceId |-> signer.deviceId,
         timestamp |-> signer.timestamp,
         hash |-> generateSignatureHash(pdfBytes, signer.name, signer.cpf,
                                        signer.deviceId,
                                        signer.timestamp)]

\* a ledger of n signatures over pdfBytes
Ledger(pdfBytes, n, order) ==
    [documentId |-> <<"d", "o", "c", "-", "1">>,
     pdfMetadata |-> [fileName |-> <<"c", "o", "n", "t", "r", "a", "t", "o", ".", "P", "D", "F">>,
                      fileSize |-> 2048, lastModified |-> 1],
     signatures |-> [k \in 1..n |-> SignerRecord(pdfBytes, k, n, order)],
     createdAt |-> Timestamp(0),
     updatedAt |-> Timestamp(n)]

\* the ledger at an address as a value: what JSON.stringify and the
\* components read of it
LogValue(heap, log) ==
    [documentId |-> heap[log].documentId,
     pdfMetadata |-> heap[heap[log].pdfMetadata].value,
     signatures |-> heap[heap[log].signatures].items,
     createdAt |-> heap[log].createdAt,
     updatedAt |-> heap[log].updatedAt]

\* a heap that holds one ledger of the given value, at address 3
HeapOfLog(log) ==
    <<[kind |-> "metadata", value |-> log.pdfMetadata],
      [kind |-> "array", items |-> log.signatures],
      [kind |-> "log", documentId |-> log.documentId, pdfMetadata |-> 1,
       signatures |-> 2, createdAt |-> log.createdAt,
       updatedAt |-> log.updatedAt]>>

\* finalizePDFWithProtocol(pdfBytes, signatureLog) is called with references
\* to the caller's objects: the ledger at address 3 of the heap, with its
\* metadata object and its signatures array, and the bytes at address 4
FinalizeInit ==
    /\ fIn \in {[pdfBytes |-> b, loadable |-> l, pages |-> ps,
                 log |-> Ledger(b, n, order)] :
                    b \in FinalizeBytes, l \in BOOLEAN, ps \in SourcePageLists,
                    n \in 0..MaxSigners, order \in {"asc", "desc"}}
    /\ fIn.loadable \/ fIn.pages = <<>>
    /\ fHeap = Append(HeapOfLog(fIn.log),
                      [kind |-> "bytes", value |-> fIn.pdfBytes])
    /\ fLoop = 0
    /\ fPc = "load"
    /\ fPages = <<>>
    /\ fHash = <<>>
    /\ fSize = <<0, 0>>
    /\ fY = 0
    /\ fNext = 0
    /\ fStamp = 0
    /\ fOut = [status |-> "none", pages |-> <<>>]
    /\ DigestIdle
    /\ PayloadIdle
    /\ AppIdle
    /\ LedgerIdle
    /\ UtilIdle

\* a page of the source document, and a page the protocol builder creates
SourcePage(k, size) == [made |-> 0, src |-> k, size |-> size, ops |-> <<>>]

NewPage(made, size) == [made |-> made, src |-> 0, size |-> size, ops |-> <<>>]

\* how many pages the protocol builder has created
CreatedCount(pages) == Cardinality({k \in 1..Len(pages) : pages[k].made > 0})

\* for (const signature of signatureLog.signatures.reverse()): reverse()
\* reverses the array of the ledger in place and returns that array
signaturesInLoopOrderReversed(heap, log) ==
    LET array == heap[log].signatures
        items == heap[array].items
    IN  [heap |-> [heap EXCEPT ![array].items =
                      [k \in 1..Len(items) |-> items[Len(items) + 1 - k]]],
         value |-> array]

\* for (const signature of signatureLog.signatures): the loop iterates the
\* signatures array of the ledger itself, no copy of it, and reads it
signaturesInLoopOrder(heap, log) ==
    [heap |-> heap, value |-> heap[log].signatures]

\* a loadPDF that never throws: bytes that cannot be parsed give a document
\* without pages
loadPDFLenient(document) ==
    [threw |-> FALSE, pages |-> IF document.loadable THEN document.pages ELSE <<>>]

\* loadPDF(pdfBytes), of what PDFDocument.load makes of the bytes: the pages
\* of the document, or the error thrown in the catch block
loadPDF(document) ==
    IF document.loadable
    THEN [threw |-> FALSE, pages |-> document.pages]
    ELSE [threw |-> TRUE, pages |-> <<>>]

\* validatePDF(pdfBytes): true when loadPDF returns, false when it throws
validatePDF(document) == ~loadPDF(document).threw

\* const pdfDoc = await loadPDF(pdfBytes): the pages of the document, or
\* the error of loadPDF leaves finalizePDFWithProtocol
FinalizeLoad ==
    /\ fPc = "load"
    /\ IF ~loadPDF(fIn).threw
       THEN /\ fPages' = [k \in 1..Len(loadPDF(fIn).pages) |->
                            SourcePage(k, loadPDF(fIn).pages[k])]
            /\ fPc' = "digest"
            /\ UNCHANGED fOut
       ELSE /\ fPc' = "failed"
            /\ fOut' = [status |-> "load-error", pages |-> <<>>]
            /\ UNCHANGED fPages
    /\ UNCHANGED <<fIn, fHeap, fLoop, fHash, fSize, fY, fNext, fStamp,
                   digestVars, payloadVars, appVars, ledgerVars, utilVars>>

\* documentHash: the digest of pdfBytes.buffer in hex
FinalizeDigest ==
    /\ fPc = "digest"
    /\ fHash' = documentHash(fHeap[4].value)
    /\ fPc' = "protocol"
    /\ UNCHANGED <<fIn, fHeap, fLoop, fPages, fSize, fY, fNext, fStamp, fOut, digestVars,
                   payloadVars, appVars, ledgerVars,
                   utilVars>>

\* createProtocolPage up to the first pass of the loop over the
\* signatures: the page is inserted at 0, the head of the protocol is drawn
\* on it from the ledger as it is and, with signatures, the loop starts on
\* the array its head names
ProtocolPageBegin ==
    /\ fPc = "protocol"
    /\ LET size == detectOriginalPageSize([k \in 1..Len(fPages) |-> fPages[k].size])
           y == size[2] - Pt(MARGIN)
           signatureLog == LogValue(fHeap, 3)
           items == HeadItems(signatureLog, fHash)
           loop == IF Len(signatureLog.signatures) = 0
                   THEN [heap |-> fHeap, value |-> 0]
                   ELSE signaturesInLoopOrder(fHeap, 3)
       IN  /\ fSize' = size
           /\ fPages' = DrawOnPage(insertPage(fPages, 0, NewPage(1, size)), 1,
                                   DrawingOps(items, y))
           /\ fY' = y - Advance(items, 1, Len(items))
           /\ fHeap' = loop.heap
           /\ fLoop' = loop.value
    /\ fNext' = 1
    /\ fPc' = "signatures"
    /\ UNCHANGED <<fIn, fHash, fStamp, fOut, digestVars, payloadVars, appVars,
                   ledgerVars, utilVars>>

\* one pass of the loop over the signatures: below margin + 150 a page is
\* inserted after the last page and y restarts at the top margin; the entry
\* is drawn with protocolPage.drawText, on the first page the builder made,
\* from the record the array holds at the position of the pass
ProtocolPageSignature ==
    /\ fPc = "signatures"
    /\ IF fLoop = 0 THEN FALSE ELSE fNext <= Len(fHeap[fLoop].items)
    /\ LET overflow == fY < Pt(MARGIN + 150)
           pages == IF overflow
                    THEN insertPage(fPages, Len(fPages),
                                    NewPage(CreatedCount(fPages) + 1, fSize))
                    ELSE fPages
           y == IF overflow THEN fSize[2] - Pt(MARGIN) ELSE fY
           items == SignatureItems(fHeap[fLoop].items[fNext], fNext)
       IN  /\ fPages' = DrawOnPage(pages, 1, DrawingOps(items, y))
           /\ fY' = y - Advance(items, 1, Len(items))
    /\ fNext' = fNext + 1
    /\ UNCHANGED <<fIn, fHeap, fLoop, fPc, fHash, fSize, fStamp, fOut,
                   digestVars, payloadVars, appVars, ledgerVars, utilVars>>

\* createProtocolPage after the loop: the Authenticity section, drawn on
\* protocolPage at the cursor
ProtocolPageAuthenticity ==
    /\ fPc = "signatures"
    /\ IF fLoop = 0 THEN TRUE ELSE fNext > Len(fHeap[fLoop].items)
    /\ LET items == AuthenticityItems(LogValue(fHeap, 3), fHash)
       IN  /\ fPages' = DrawOnPage(fPages, 1, DrawingOps(items, fY))
           /\ fY' = fY - Advance(items, 1, Len(items))
    /\ fPc' = "stamp"
    /\ fStamp' = 0
    /\ UNCHANGED <<fIn, fHeap, fLoop, fHash, fSize, fNext, fOut, digestVars,
                   payloadVars, appVars, ledgerVars, utilVars>>

\* one pass of the loop of drawHashHeaderOnAllPages over pdfDoc.getPages()
StampPage ==
    /\ fPc = "stamp"
    /\ fStamp < Len(fPages)
    /\ fPages' = [fPages EXCEPT ![fStamp + 1].ops =
                    @ \o HeaderOps(fStamp, Len(fPages),
                                   fPages[fStamp + 1].size[2], fHash)]
    /\ fStamp' = fStamp + 1
    /\ UNCHANGED <<fIn, fHeap, fLoop, fPc, fHash, fSize, fY, fNext, fOut, digestVars,
                   payloadVars, appVars, ledgerVars,
                   utilVars>>

\* pdfDoc.save(): the bytes returned, as the pages they hold
FinalizeSave ==
    /\ fPc = "stamp"
    /\ fStamp = Len(fPages)
    /\ fOut' = [status |-> "saved", pages |-> fPages]
    /\ fPc' = "done"
    /\ UNCHANGED <<fIn, fHeap, fLoop, fPages, fHash, fSize, fY, fNext, fStamp, digestVars,
                   payloadVars, appVars, ledgerVars,
                   utilVars>>

FinalizeNext ==
    \/ FinalizeLoad
    \/ FinalizeDigest
    \/ ProtocolPageBegin
    \/ ProtocolPageSignature
    \/ ProtocolPageAuthenticity
    \/ StampPage
    \/ FinalizeSave

SpecFinalize == FinalizeInit /\ [][FinalizeNext]_vars

(***************************************************************************)
(* The signature ledger (utils/storage.ts).  Objects live on a heap: an    *)
(* address is an index of the sequence of objects, and a ledger object     *)
(* names its pdfMetadata object and its signatures array by address.       *)
(***************************************************************************)
\* the most calls of the ledger functions in a row
MaxLedgerCalls == 3

\* addSignatureToLog changing the ledger it is given: signatures.push and an
\* assignment to updatedAt
addSignatureToLogInPlace(heap, log, signature, now) ==
    [heap |-> [heap EXCEPT ![heap[log].signatures].items = Append(@, signature),
                           ![log].updatedAt = now],
     value |-> log]

\* addSignatureToLog with the new record in front of the others
addSignatureToLogAtFront(heap, log, signature, now) ==
    LET items == <<signature>> \o heap[heap[log].signatures].items
        h1 == Append(heap, [kind |-> "array", items |-> items])
        h2 == Append(h1, [heap[log] EXCEPT !.signatures = Len(h1),
                                           !.updatedAt = now])
    IN  [heap |-> h2, value |-> Len(h2)]

\* createSignatureLog(pdfMetadata): uuid is what crypto.randomUUID() returns
\* and now what new Date().toISOString() returns
createSignatureLog(heap, pdfMetadata, uuid, now) ==
    LET h1 == Append(heap, [kind |-> "array", items |-> <<>>])
        h2 == Append(h1, [kind |-> "log", documentId |-> uuid,
                          pdfMetadata |-> pdfMetadata, signatures |-> Len(h1),
                          createdAt |-> now, updatedAt |-> now])
    IN  [heap |-> h2, value |-> Len(h2)]

\* addSignatureToLog(log, signature): a new array [...log.signatures,
\* signature] and a new object {...log, signatures, updatedAt}
addSignatureToLog(heap, log, signature, now) ==
    LET items == heap[heap[log].signatures].items \o <<signature>>
        h1 == Append(heap, [kind |-> "array", items |-> items])
        h2 == Append(h1, [heap[log] EXCEPT !.signatures = Len(h1),
                                           !.updatedAt = now])
    IN  [heap |-> h2, value |-> Len(h2)]

\* a heap that holds the metadata object of a file at address 1
HeapOfMetadata(metadata) == <<[kind |-> "metadata", value |-> metadata]>>

\* a match that takes every file for the document of the log
isPDFMatchingLogAny(log, metadata) == TRUE

\* isPDFMatchingLog(log, metadata)
isPDFMatchingLog(log, metadata) ==
    /\ log.pdfMetadata.fileName = metadata.fileName
    /\ log.pdfMetadata.fileSize = metadata.fileSize
    /\ log.pdfMetadata.lastModified = metadata.lastModified

\* the tokens of a JSON text: strings, numbers and punctuation
JSONString(chars) == [t |-> "string", v |-> chars]

JSONNumber(n) == [t |-> "number", v |-> NumberToString(n)]

JSONPunct(c) == [t |-> "punct", v |-> <<c>>]

\* JSON.stringify(log): the values of the ledger in the order of its
\* properties, objects and the array delimited
JSONStringify(log) ==
    <<JSONPunct("{"), JSONString(log.documentId), JSONPunct("{"),
      JSONString(log.pdfMetadata.fileName), JSONNumber(log.pdfMetadata.fileSize),
      JSONNumber(log.pdfMetadata.lastModified), JSONPunct("}"), JSONPunct("[")>>
    \o Join([k \in 1..Len(log.signatures) |->
               <<JSONPunct("{"), JSONString(log.signatures[k].id),
                 JSONString(log.signatures[k].name),
                 JSONString(log.signatures[k].cpf),
                 JSONString(log.signatures[k].deviceId),
                 JSONString(log.signatures[k].timestamp),
                 JSONString(log.signatures[k].hash), JSONPunct("}")>>])
    \o <<JSONPunct("]"), JSONString(log.createdAt), JSONString(log.updatedAt),
         JSONPunct("}")>>

\* JSON.parse does not throw for the text
JSONWellFormed(text) ==
    /\ Len(text) >= 12
    /\ (Len(text) - 12) % 8 = 0
    /\ \A k \in 1..Len(text) : text[k].t = "number" <=> k \in {5, 6}

\* JSON.parse(data) as SignatureLog
JSONParse(text) ==
    LET n == (Len(text) - 12) \div 8
        at(k, j) == text[8 + 8 * (k - 1) + j].v
    IN  [documentId |-> text[2].v,
         pdfMetadata |-> [fileName |-> text[4].v,
                          fileSize |-> ParseNumber(text[5].v),
                          lastModified |-> ParseNumber(text[6].v)],
         signatures |-> [k \in 1..n |->
                            [id |-> at(k, 2), name |-> at(k, 3),
                             cpf |-> at(k, 4), deviceId |-> at(k, 5),
                             timestamp |-> at(k, 6), hash |-> at(k, 7)]],
         createdAt |-> text[Len(text) - 2].v,
         updatedAt |-> text[Len(text) - 1].v]

\* saveSignatureLog(log) when setItem does not throw
saveSignatureLog(storage, log) ==
    [storage EXCEPT !.pdf_signature_current_log = Some(JSONStringify(log))]

\* a loadSignatureLog that never finds a saved log
loadSignatureLogNone(storage) == Null

\* loadSignatureLog(): null without an item and when JSON.parse throws
loadSignatureLog(storage) ==
    LET data == storage.pdf_signature_current_log
    IN  IF data = Null THEN Null
        ELSE IF ~JSONWellFormed(data[1]) THEN Null
        ELSE Some(JSONParse(data[1]))

\* a clearSignatureLog that leaves the item in place
clearSignatureLogKeeping(storage) == storage

\* clearSignatureLog()
clearSignatureLog(storage) ==
    [storage EXCEPT !.pdf_signature_current_log = Null]

\* a getOrCreateDeviceId that stores a new id at every call
getOrCreateDeviceIdAlways(storage, uuid, stored) ==
    [threw |-> FALSE, deviceId |-> uuid, created |-> TRUE,
     storage |-> [storage EXCEPT !.pdf_signature_device_id = Some(uuid)]]

\* getOrCreateDeviceId(): the device id returned and the storage after the
\* call. An item that is absent or the empty string is falsy: generateUUID
\* is called (created) with result uuid and setItem stores it, or setItem
\* throws (stored is false) and the call ends with that error
getOrCreateDeviceId(storage, uuid, stored) ==
    LET deviceId == storage.pdf_signature_device_id
    IN  IF deviceId # Null /\ deviceId[1] # <<>>
        THEN [threw |-> FALSE, deviceId |-> deviceId[1], created |-> FALSE,
              storage |-> storage]
        ELSE IF stored
        THEN [threw |-> FALSE, deviceId |-> uuid, created |-> TRUE,
              storage |-> [storage EXCEPT
                             !.pdf_signature_device_id = Some(uuid)]]
        ELSE [threw |-> TRUE, deviceId |-> <<>>, created |-> TRUE,
              storage |-> storage]

\* applySignatureStamp(pdfBytes, signature, existingSignatures)
applySignatureStamp(pdfBytes, signature, existingSignatures) == pdfBytes

(***************************************************************************)
(* The session of App.tsx: the component state, the state as last          *)
(* rendered (the values the handlers of that render close over and the     *)
(* controls show), localStorage and the handlers, one action for each run  *)
(* of a handler between two awaits.                                        *)
(***************************************************************************)
\* the most calls of handleSign in flight
MaxSignCalls == 2
\* the most file selections in flight
MaxSelectCalls == 1
\* the most calls of handleDownload in flight
MaxDownloadCalls == 2
\* what new Date() can return now: the clock does not run backwards
ClockReads == {t \in {clock, clock + 1} : t <= MaxClock}

\* the calls in flight that will still call crypto.randomUUID
UuidsAwaited ==
    Len(selectCall) + Cardinality({k \in 1..Len(signCalls) : signCalls[k].pc = "hash"})

\* another handler has run while these calls of handleSign were in flight
Disturb(calls) == [k \in 1..Len(calls) |-> [calls[k] EXCEPT !.interleaved = TRUE]]

\* the calls without the i-th
Remove(calls, i) == SubSeq(calls, 1, i - 1) \o SubSeq(calls, i + 1, Len(calls))

AppInit ==
    /\ AppIdle
    /\ DigestIdle
    /\ PayloadIdle
    /\ FinalizeIdle
    /\ LedgerIdle
    /\ UtilIdle

\* the effect on mount: the device id, and the saved log if there is one.
\* When getOrCreateDeviceId throws, the effect ends there and React, with
\* no error boundary around App, removes the component: nothing is shown
\* and no handler can run until the page is loaded again
Mount ==
    /\ ~mounted
    /\ \/ /\ localStorage.pdf_signature_device_id # Null
          /\ localStorage.pdf_signature_device_id[1] # <<>>
       \/ uuidCount < MaxUuids
    /\ \E stored \in BOOLEAN :
          LET got == getOrCreateDeviceId(localStorage, UUID(uuidCount + 1),
                                         stored)
              savedLog == loadSignatureLog(got.storage)
          IN  /\ localStorage' = got.storage
              /\ uuidCount' = IF got.created THEN uuidCount + 1 ELSE uuidCount
              /\ IF got.threw
                 THEN UNCHANGED <<state, mounted>>
                 ELSE /\ state' = [state EXCEPT
                                    !.deviceId = got.deviceId,
                                    !.signatureLog =
                                        IF savedLog # Null THEN savedLog ELSE @]
                      /\ mounted' = TRUE
    /\ lastSign' = Null
    /\ lastDownload' = Null
    /\ lastSelect' = Null
    /\ UNCHANGED created
    /\ UNCHANGED <<rendered, selectCall, signCalls, downloadCalls, clock,
                   digestVars, payloadVars, finalizeVars, ledgerVars,
                   utilVars>>

\* React renders the component with the state as it is now
Render ==
    /\ rendered # state
    /\ rendered' = state
    /\ lastSign' = Null
    /\ lastDownload' = Null
    /\ lastSelect' = Null
    /\ UNCHANGED created
    /\ UNCHANGED <<state, mounted, localStorage, selectCall, signCalls,
                   downloadCalls, clock, uuidCount, digestVars, payloadVars,
                   finalizeVars, ledgerVars,
                   utilVars>>

\* the page is loaded again: a new App, and the handlers in flight are gone
Reload ==
    /\ mounted
    /\ state' = InitialState
    /\ rendered' = InitialState
    /\ mounted' = FALSE
    /\ selectCall' = <<>>
    /\ signCalls' = <<>>
    /\ downloadCalls' = <<>>
    /\ lastSign' = Null
    /\ lastDownload' = Null
    /\ lastSelect' = Null
    /\ UNCHANGED created
    /\ UNCHANGED <<localStorage, clock, uuidCount, digestVars, payloadVars,
                   finalizeVars, ledgerVars,
                   utilVars>>

\* PDFUpload.processFile(file) up to await file.arrayBuffer(); the drop zone
\* is shown while no file is loaded
SelectFile(file) ==
    /\ mounted
    /\ rendered.currentFile = Null
    /\ Len(selectCall) < MaxSelectCalls
    /\ uuidCount + UuidsAwaited < MaxUuids
    /\ file.type = "application/pdf"
    /\ Len(file.contents) <= 50 * 1024 * 1024
    /\ selectCall' = Append(selectCall, [pc |-> "read", file |-> file])
    /\ signCalls' = Disturb(signCalls)
    /\ lastSign' = Null
    /\ lastDownload' = Null
    /\ lastSelect' = Null
    /\ UNCHANGED created
    /\ UNCHANGED <<state, rendered, mounted, localStorage, downloadCalls,
                   clock, uuidCount, digestVars, payloadVars, finalizeVars,
                   ledgerVars,
                   utilVars>>

\* processFile after the bytes were read: the magic bytes, then
\* handleFileSelect(file, bytes, metadata) up to await validatePDF(bytes)
SelectFileRead(i) ==
    /\ i \in 1..Len(selectCall)
    /\ selectCall[i].pc = "read"
    /\ LET contents == selectCall[i].file.contents
           header == SubSeq(contents, 1, IF Len(contents) < 5 THEN Len(contents) ELSE 5)
       IN  selectCall' = IF header # PdfMagic THEN Remove(selectCall, i)
                         ELSE [selectCall EXCEPT ![i].pc = "validate"]
    /\ signCalls' = Disturb(signCalls)
    /\ lastSign' = Null
    /\ lastDownload' = Null
    /\ lastSelect' = Null
    /\ UNCHANGED created
    /\ UNCHANGED <<state, rendered, mounted, localStorage, downloadCalls,
                   clock, uuidCount, digestVars, payloadVars, finalizeVars,
                   ledgerVars,
                   utilVars>>

\* handleFileSelect after validatePDF: an invalid file changes nothing; a
\* valid one is loaded, and the saved log is resumed when it matches the
\* file or replaced by a new one; saved is whether setItem succeeded
SelectFileValidated(i) ==
    /\ i \in 1..Len(selectCall)
    /\ selectCall[i].pc = "validate"
    /\ LET file == selectCall[i].file
           bytes == Uint8Array(file.contents, 0, Len(file.contents))
           metadata == [fileName |-> file.name, fileSize |-> Len(file.contents),
                        lastModified |-> file.lastModified]
           savedLog == loadSignatureLog(localStorage)
       IN  IF ~validatePDF([loadable |-> file.parses, pages |-> <<>>])
           THEN /\ lastSelect' = Some([file |-> file, savedLog |-> savedLog,
                                        outcome |-> "invalid"])
                /\ UNCHANGED <<state, localStorage, clock, uuidCount, created>>
           ELSE IF savedLog # Null /\ isPDFMatchingLog(savedLog[1], metadata)
           THEN /\ state' = [state EXCEPT !.currentFile = Some(file),
                                          !.pdfBytes = Some(bytes),
                                          !.signatureLog = savedLog]
                /\ lastSelect' = Some([file |-> file, savedLog |-> savedLog,
                                        outcome |-> "recognised"])
                /\ UNCHANGED <<localStorage, clock, uuidCount, created>>
           ELSE \E t \in ClockReads, saved \in BOOLEAN :
                  LET made == createSignatureLog(HeapOfMetadata(metadata), 1,
                                                 UUID(uuidCount + 1), Timestamp(t))
                      newLog == LogValue(made.heap, made.value)
                  IN  /\ state' = [state EXCEPT !.currentFile = Some(file),
                                                !.pdfBytes = Some(bytes),
                                                !.signatureLog = Some(newLog)]
                      /\ localStorage' = IF saved
                                         THEN saveSignatureLog(localStorage, newLog)
                                         ELSE localStorage
                      /\ clock' = t
                      /\ uuidCount' = uuidCount + 1
                      /\ created' = Append(created, file)
                      /\ lastSelect' = Some([file |-> file,
                                              savedLog |-> savedLog,
                                              outcome |-> "created"])
    /\ selectCall' = Remove(selectCall, i)
    /\ signCalls' = Disturb(signCalls)
    /\ lastSign' = Null
    /\ lastDownload' = Null
    /\ UNCHANGED <<rendered, mounted, downloadCalls, digestVars, payloadVars,
                   finalizeVars, ledgerVars,
                   utilVars>>

\* handleSign(data) up to await generateSignatureHash(...): the handler of
\* the last render, called from the form that render shows
SignSubmit(data) ==
    /\ mounted
    /\ rendered.currentFile # Null
    /\ ~rendered.isLoading
    /\ Len(signCalls) < MaxSignCalls
    /\ uuidCount + UuidsAwaited < MaxUuids
    /\ IF rendered.pdfBytes = Null \/ rendered.signatureLog = Null
       THEN UNCHANGED <<state, signCalls, clock>>
       ELSE \E t \in ClockReads :
              /\ state' = [state EXCEPT !.isLoading = TRUE]
              /\ clock' = t
              /\ signCalls' =
                   Append(Disturb(signCalls),
                          [pc |-> "hash",
                           pdfBytes |-> rendered.pdfBytes[1],
                           signatureLog |-> rendered.signatureLog[1],
                           deviceId |-> rendered.deviceId,
                           timestamp |-> Timestamp(t),
                           normalizedName |-> normalizeName(data.name),
                           normalizedCPF |-> normalizeCPF(data.cpf),
                           id |-> <<>>, hash |-> <<>>,
                           previous |-> state.signatureLog,
                           loaded |-> state.pdfBytes,
                           interleaved |-> \/ rendered # state
                                           \/ signCalls # <<>>
                                           \/ selectCall # <<>>
                                           \/ downloadCalls # <<>>])
    /\ lastSign' = Null
    /\ lastDownload' = Null
    /\ lastSelect' = Null
    /\ UNCHANGED created
    /\ UNCHANGED <<rendered, mounted, localStorage, selectCall, downloadCalls,
                   uuidCount, digestVars, payloadVars, finalizeVars,
                   ledgerVars,
                   utilVars>>

\* the signature record a call of handleSign has built
SignatureOf(call) ==
    [id |-> call.id, name |-> call.normalizedName, cpf |-> call.normalizedCPF,
     deviceId |-> call.deviceId, timestamp |-> call.timestamp,
     hash |-> call.hash]

\* the calls of handleSign in flight after the i-th has run a step that
\* leaves it as call
Stepped(i, call) ==
    [k \in 1..Len(signCalls) |->
        IF k = i THEN call ELSE [signCalls[k] EXCEPT !.interleaved = TRUE]]

\* what is remembered of a call of handleSign that has ended
Ended(call, outcome, log) ==
    Some([outcome |-> outcome, previous |-> call.previous,
          loaded |-> call.loaded, interleaved |-> call.interleaved, signature |-> SignatureOf(call),
          result |-> log])

\* handleSign after generateSignatureHash: the record is built and
\* applySignatureStamp awaited, or the hash was rejected and the error shown
SignHashed(i) ==
    /\ i \in 1..Len(signCalls)
    /\ signCalls[i].pc = "hash"
    /\ LET call == signCalls[i]
       IN  \E resolved \in BOOLEAN :
              IF resolved
              THEN /\ signCalls' =
                        Stepped(i, [call EXCEPT
                            !.pc = "stamp",
                            !.id = UUID(uuidCount + 1),
                            !.hash = generateSignatureHash(
                                        call.pdfBytes, call.normalizedName,
                                        call.normalizedCPF, call.deviceId,
                                        call.timestamp)])
                   /\ uuidCount' = uuidCount + 1
                   /\ lastSign' = Null
                   /\ UNCHANGED state
              ELSE /\ signCalls' = Remove(Stepped(i, call), i)
                   /\ state' = [state EXCEPT !.isLoading = FALSE]
                   /\ lastSign' = Ended(call, "error", state'.signatureLog)
                   /\ UNCHANGED uuidCount
    /\ lastDownload' = Null
    /\ lastSelect' = Null
    /\ UNCHANGED created
    /\ UNCHANGED <<rendered, mounted, localStorage, selectCall, downloadCalls,
                   clock, digestVars, payloadVars, finalizeVars, ledgerVars,
                   utilVars>>

\* handleSign after applySignatureStamp: setPdfBytes, addSignatureToLog on
\* the ledger of the handler's render, setSignatureLog, saveSignatureLog
\* (saved is whether setItem succeeded) and setIsLoading(false)
SignFinish(i) ==
    /\ i \in 1..Len(signCalls)
    /\ signCalls[i].pc = "stamp"
    /\ LET call == signCalls[i]
           signature == SignatureOf(call)
           newPdfBytes == applySignatureStamp(call.pdfBytes, signature,
                                              Len(call.signatureLog.signatures))
       IN  \E t \in ClockReads, saved \in BOOLEAN :
              LET added == addSignatureToLog(HeapOfLog(call.signatureLog), 3,
                                             signature, Timestamp(t))
                  updatedLog == LogValue(added.heap, added.value)
              IN  /\ state' = [state EXCEPT !.pdfBytes = Some(newPdfBytes),
                                            !.signatureLog = Some(updatedLog),
                                            !.isLoading = FALSE]
                  /\ localStorage' = IF saved
                                     THEN saveSignatureLog(localStorage, updatedLog)
                                     ELSE localStorage
                  /\ clock' = t
                  /\ lastSign' = Ended(call, IF saved THEN "applied" ELSE "error",
                                       state'.signatureLog)
                  /\ signCalls' = Remove(Stepped(i, call), i)
    /\ lastDownload' = Null
    /\ lastSelect' = Null
    /\ UNCHANGED created
    /\ UNCHANGED <<rendered, mounted, selectCall, downloadCalls, uuidCount,
                   digestVars, payloadVars, finalizeVars, ledgerVars,
                   utilVars>>

\* handleDownload() up to await finalizePDFWithProtocol(...): the button is
\* enabled with a file, a signature and no download in progress
DownloadClick ==
    /\ mounted
    /\ rendered.currentFile # Null
    /\ rendered.signatureLog # Null
    /\ Len(rendered.signatureLog[1].signatures) > 0
    /\ ~rendered.isDownloading
    /\ Len(downloadCalls) < MaxDownloadCalls
    /\ IF rendered.pdfBytes = Null
       THEN UNCHANGED <<state, downloadCalls>>
       ELSE /\ state' = [state EXCEPT !.isDownloading = TRUE]
            /\ downloadCalls' =
                 Append(downloadCalls,
                        [pdfBytes |-> rendered.pdfBytes[1],
                         currentFile |-> rendered.currentFile[1],
                         signatureLog |-> rendered.signatureLog[1]])
    /\ signCalls' = Disturb(signCalls)
    /\ lastSign' = Null
    /\ lastDownload' = Null
    /\ lastSelect' = Null
    /\ UNCHANGED created
    /\ UNCHANGED <<rendered, mounted, localStorage, selectCall, clock,
                   uuidCount, digestVars, payloadVars, finalizeVars,
                   ledgerVars,
                   utilVars>>

\* handleDownload after finalizePDFWithProtocol: the file offered under the
\* name with the signature count, or the error when the document failed to
\* load
DownloadFinish(i) ==
    /\ i \in 1..Len(downloadCalls)
    /\ LET call == downloadCalls[i]
           originalName == StripPdfSuffix(call.currentFile.name)
           signatureCount == Len(call.signatureLog.signatures)
       IN  lastDownload' =
             IF call.currentFile.parses
             THEN Some([download |-> originalName \o <<"_", "a", "s", "s", "i", "n", "a",
                                               "d", "o", "_">>
                                     \o NumberToString(signatureCount)
                                     \o <<"x", ".", "p", "d", "f">>,
                        signatureLog |-> call.signatureLog])
             ELSE Null
    /\ state' = [state EXCEPT !.isDownloading = FALSE]
    /\ downloadCalls' = Remove(downloadCalls, i)
    /\ signCalls' = Disturb(signCalls)
    /\ lastSign' = Null
    /\ lastSelect' = Null
    /\ UNCHANGED created
    /\ UNCHANGED <<rendered, mounted, localStorage, selectCall, clock,
                   uuidCount, digestVars, payloadVars, finalizeVars,
                   ledgerVars,
                   utilVars>>

\* handleClear(): the buttons that call it are shown or enabled with a file
Clear ==
    /\ mounted
    /\ rendered.currentFile # Null
    /\ state' = [state EXCEPT !.currentFile = Null, !.pdfBytes = Null,
                              !.signatureLog = Null]
    /\ localStorage' = clearSignatureLog(localStorage)
    /\ signCalls' = Disturb(signCalls)
    /\ lastSign' = Null
    /\ lastDownload' = Null
    /\ lastSelect' = Null
    /\ UNCHANGED created
    /\ UNCHANGED <<rendered, mounted, selectCall, downloadCalls, clock,
                   uuidCount, digestVars, payloadVars, finalizeVars,
                   ledgerVars,
                   utilVars>>

Next ==
    \/ Mount
    \/ Render
    \/ Reload
    \/ \E file \in FileSet : SelectFile(file)
    \/ \E i \in 1..MaxSelectCalls : SelectFileRead(i)
    \/ \E i \in 1..MaxSelectCalls : SelectFileValidated(i)
    \/ \E data \in AcceptedForms : SignSubmit(data)
    \/ \E i \in 1..MaxSignCalls : SignHashed(i)
    \/ \E i \in 1..MaxSignCalls : SignFinish(i)
    \/ DownloadClick
    \/ \E i \in 1..MaxDownloadCalls : DownloadFinish(i)
    \/ Clear

Spec == AppInit /\ [][Next]_vars

(***************************************************************************)
(* The ledger functions called one after another on one heap.              *)
(***************************************************************************)
\* the addresses of the objects of a kind
AddressesOf(heap, kind) == {a \in 1..Len(heap) : heap[a].kind = kind}

\* the signature records handed to addSignatureToLog
LedgerSignatures ==
    {[id |-> UUID(k), name |-> <<"A", "N", "A", " ", "L", "I", "M", "A">>,
      cpf |-> <<"5", "2", "9", "9", "8", "2", "2", "4", "7", "2", "5">>,
      deviceId |-> <<"d", "e", "v", "-", "1">>, timestamp |-> Timestamp(k),
      hash |-> HexString(<<k, 255>>)] : k \in 1..2}

\* the times new Date() can return after the last call
LedgerTimes == {t \in 0..MaxClock : lCall = Null \/ t >= lCall[1].now}

LedgerInit ==
    /\ lHeap = <<[kind |-> "metadata",
                  value |-> [fileName |-> <<"a", ".", "p", "d", "f">>,
                             fileSize |-> 6, lastModified |-> 1000]],
                 [kind |-> "metadata",
                  value |-> [fileName |-> <<"b", ".", "p", "d", "f">>,
                             fileSize |-> 7, lastModified |-> 2000]]>>
    /\ lCall = Null
    /\ DigestIdle
    /\ PayloadIdle
    /\ FinalizeIdle
    /\ AppIdle
    /\ UtilIdle

\* createSignatureLog(pdfMetadata)
CallCreateSignatureLog ==
    /\ Cardinality(AddressesOf(lHeap, "log")) < MaxLedgerCalls
    /\ \E pdfMetadata \in AddressesOf(lHeap, "metadata"), t \in LedgerTimes :
          LET uuid == UUID(Cardinality(AddressesOf(lHeap, "log")) + 1)
              made == createSignatureLog(lHeap, pdfMetadata, uuid, Timestamp(t))
          IN  /\ lHeap' = made.heap
              /\ lCall' = Some([op |-> "create", before |-> lHeap, log |-> 0,
                                signature |-> <<>>, now |-> t,
                                value |-> made.value])
    /\ UNCHANGED <<digestVars, payloadVars, finalizeVars, appVars, utilVars>>

\* addSignatureToLog(log, signature), for a ledger of the heap: one just
\* created or returned, or one that was an argument before
CallAddSignatureToLog ==
    /\ Cardinality(AddressesOf(lHeap, "log")) < MaxLedgerCalls
    /\ \E log \in AddressesOf(lHeap, "log"), signature \in LedgerSignatures,
          t \in LedgerTimes :
          LET added == addSignatureToLog(lHeap, log, signature, Timestamp(t))
          IN  /\ lHeap' = added.heap
              /\ lCall' = Some([op |-> "add", before |-> lHeap, log |-> log,
                                signature |-> signature, now |-> t,
                                value |-> added.value])
    /\ UNCHANGED <<digestVars, payloadVars, finalizeVars, appVars, utilVars>>

LedgerNext == CallCreateSignatureLog \/ CallAddSignatureToLog

SpecLedger == LedgerInit /\ [][LedgerNext]_vars

(***************************************************************************)
(* Properties of the protocol pages and the headers.                       *)
(***************************************************************************)
\* the places in pgs of the pages the protocol builder created
CreatedPlaces(pgs) == {k \in 1..Len(pgs) : pgs[k].made > 0}

\* the signatures whose entry is drawn on the page at place k
SigsOn(pgs, k) ==
    {pgs[k].ops[j].sig : j \in {i \in 1..Len(pgs[k].ops) : pgs[k].ops[i].kind = "sigNome"}}

\* the operations of one kind on a page
OpsOfKind(page, kind) == SelectSeq(page.ops, LAMBDA o : o.kind = kind)

\* C1: whenever the overflow check before a signer entry fires, a page is
\* created and that entry is drawn on it with the cursor restarted at the top
\* margin; the later entries and the Authenticity section are drawn on the
\* newest page, and nothing more is drawn on an earlier protocol page.
C1_OverflowContinuesOnNewPage ==
    /\ \A k \in CreatedPlaces(fPages) :
          fPages[k].made >= 2
              => /\ fPages[k].ops # <<>>
                 /\ fPages[k].ops[1].kind = "sigNome"
                 /\ fPages[k].ops[1].y = fSize[2] - Pt(MARGIN)
    /\ \A k, l \in CreatedPlaces(fPages) :
          fPages[k].made < fPages[l].made
              => \A a \in SigsOn(fPages, k), b \in SigsOn(fPages, l) : a < b
    /\ fPc \in {"stamp", "done"}
          => \A k \in CreatedPlaces(fPages) :
                OpsOfKind(fPages[k], "autenticidade") # <<>>
                    => fPages[k].made = CreatedCount(fPages)

\* the entries of a ledger of n signatures exceed one page of the size used:
\* the cursor is at the top margin less 187 points before the first entry and
\* moves down 94 points an entry, and an entry needs margin + 150 points
ExceedsOnePage(size, n) ==
    n >= 1 /\ size[2] - Pt(MARGIN) - Pt(187) - (n - 1) * Pt(94) < Pt(MARGIN + 150)

\* the entries drawn on the pages the builder created: the signature, the
\* place of the page in the document and the height of the line
EntriesDrawn(pgs) ==
    UNION {{[sig |-> pgs[k].ops[j].sig, place |-> k, y |-> pgs[k].ops[j].y] :
              j \in {i \in 1..Len(pgs[k].ops) : pgs[k].ops[i].kind = "sigNome"}} :
           k \in CreatedPlaces(pgs)}

\* C2: for a ledger whose entries exceed one page the builder produces at
\* least 2 pages, every entry of the ledger is on the produced pages exactly
\* once, and the entries read in ledger order: an earlier entry is on an
\* earlier page, or higher on the same page, whatever the timestamps.
C2_EveryEntryOnceInLedgerOrder ==
    (fPc \in {"stamp", "done"} /\ ExceedsOnePage(fSize, Len(fIn.log.signatures)))
        => /\ CreatedCount(fPages) >= 2
           /\ \A k \in 1..Len(fIn.log.signatures) :
                 Cardinality({e \in EntriesDrawn(fPages) : e.sig = k}) = 1
           /\ \A a, b \in EntriesDrawn(fPages) :
                 a.sig < b.sig
                    => \/ a.place < b.place
                       \/ a.place = b.place /\ a.y > b.y

\* C3: in the artifact returned every page the protocol builder created comes
\* before every page of the source document, and the source pages keep their
\* order.
C3_ProtocolPagesFirst ==
    fOut.status = "saved"
        => /\ \A i, j \in 1..Len(fOut.pages) :
                (fOut.pages[i].made > 0 /\ fOut.pages[j].made = 0) => i < j
           /\ \A i, j \in 1..Len(fOut.pages) :
                (fOut.pages[i].made = 0 /\ fOut.pages[j].made = 0 /\ i < j)
                    => fOut.pages[i].src < fOut.pages[j].src

\* C4: in the artifact of N pages the page at place i (from 1) carries the
\* page number text for i of N, N being the count after every protocol page
\* was inserted; every page has one header and none has two.
C4_PageNumberOnEveryPage ==
    fOut.status = "saved"
        => LET N == Len(fOut.pages)
           IN  /\ N = Len(fIn.pages) + CreatedCount(fOut.pages)
               /\ \A i \in 1..N :
                    /\ Len(OpsOfKind(fOut.pages[i], "headerBar")) = 1
                    /\ Len(OpsOfKind(fOut.pages[i], "headerHash")) = 1
                    /\ Len(OpsOfKind(fOut.pages[i], "headerPage")) = 1
                    /\ OpsOfKind(fOut.pages[i], "headerPage")[1].text =
                         <<"P", "U+00E1", "g", "i", "n", "a", " ">>
                         \o NumberToString(i) \o <<" ", "d", "e", " ">>
                         \o NumberToString(N)

\* an artifact with two source pages and an overflow page has been returned
C4_Witness ==
    /\ fOut.status = "saved"
    /\ Len(fIn.pages) >= 2
    /\ CreatedCount(fOut.pages) >= 2

\* text is the first 40 characters of hash in upper case, in groups of 2
\* joined with '-'
IsGroupedPrefix(text, hash) ==
    /\ Len(text) = 59
    /\ \A k \in 1..20 :
          /\ <<text[3 * k - 2], text[3 * k - 1]>>
                = ToUpperCase(<<hash[2 * k - 1], hash[2 * k]>>)
          /\ k < 20 => text[3 * k] = "-"

\* C5: the header hash text is the same on every page: "HASH: " and the
\* grouped first 40 hex characters of the whole-document digest of this call,
\* the digest the document section and the authenticity box show, and not
\* the digest of a signer record.
C5_HeaderShowsDocumentDigest ==
    fOut.status = "saved"
        => /\ fHash = documentHash(fIn.pdfBytes)
           /\ \A i \in 1..Len(fOut.pages) :
                \A o \in {OpsOfKind(fOut.pages[i], "headerHash")[j] :
                            j \in 1..Len(OpsOfKind(fOut.pages[i], "headerHash"))} :
                    /\ SubSeq(o.text, 1, 6) = <<"H", "A", "S", "H", ":", " ">>
                    /\ IsGroupedPrefix(SubSeq(o.text, 7, Len(o.text)), fHash)
                    /\ \A k \in 1..Len(fIn.log.signatures) :
                          ~IsGroupedPrefix(SubSeq(o.text, 7, Len(o.text)),
                                           fIn.log.signatures[k].hash)
           /\ \E i \in 1..Len(fOut.pages) :
                /\ Len(OpsOfKind(fOut.pages[i], "docHashTotvs")) = 1
                /\ IsGroupedPrefix(
                       SubSeq(OpsOfKind(fOut.pages[i], "docHashTotvs")[1].text,
                              13, 71), fHash)
                /\ OpsOfKind(fOut.pages[i], "docSHA256")[1].text
                       = <<"S", "H", "A", "2", "5", "6", ":", " ">> \o fHash
                /\ Len(OpsOfKind(fOut.pages[i], "autHashTotvs")) = 1
                /\ IsGroupedPrefix(
                       SubSeq(OpsOfKind(fOut.pages[i], "autHashTotvs")[1].text,
                              13, 71), fHash)

\* an artifact of several pages for a ledger with signatures has been returned
C5_Witness ==
    /\ fOut.status = "saved"
    /\ Len(fOut.pages) >= 3
    /\ Len(fIn.log.signatures) >= 2
    /\ \A i \in 1..Len(fOut.pages) :
          Len(OpsOfKind(fOut.pages[i], "headerHash")) = 1

(***************************************************************************)
(* Properties of the ledger and of the sign action.                        *)
(***************************************************************************)
\* C9: a call of handleSign that ran from a render showing the current
\* state to its end with no step of another handler in between leaves the
\* ledger's signatures as they were when it started: with exactly one new
\* record appended at the end when the signature was applied, and never with
\* a record removed, moved or changed.
C9_SignAppendsOneRecord ==
    (lastSign # Null /\ ~lastSign[1].interleaved)
        => LET ended == lastSign[1]
           IN  /\ ended.previous # Null
               /\ ended.result # Null
               /\ LET before == ended.previous[1].signatures
                      after == ended.result[1].signatures
                  IN  /\ Len(after) \in {Len(before), Len(before) + 1}
                      /\ SubSeq(after, 1, Len(before)) = before
                      /\ ended.outcome = "applied"
                            => /\ after = Append(before, ended.signature)
                               /\ \A k \in 1..Len(before) :
                                     before[k].id # ended.signature.id

\* a signature has just been applied, undisturbed, to a ledger that had one
C9_Witness ==
    /\ lastSign # Null
    /\ ~lastSign[1].interleaved
    /\ lastSign[1].outcome = "applied"
    /\ Len(lastSign[1].previous[1].signatures) >= 1
    /\ state.signatureLog = lastSign[1].result

\* C10: addSignatureToLog changes no object that existed before the call, so
\* the ledger it was given has the signatures and the updatedAt it had; what
\* it returns is another object, with another array, that has the documentId,
\* the pdfMetadata and the createdAt of the one given, its signatures
\* followed by the new record, and the time of the call as updatedAt.
C10_AddSignatureToLogLeavesInput ==
    (lCall # Null /\ lCall[1].op = "add")
        => LET call == lCall[1]
               old == 1..Len(call.before)
               given == LogValue(call.before, call.log)
               returned == LogValue(lHeap, call.value)
           IN  /\ \A a \in old : lHeap[a] = call.before[a]
               /\ LogValue(lHeap, call.log).signatures = given.signatures
               /\ LogValue(lHeap, call.log).updatedAt = given.updatedAt
               /\ call.value \notin old
               /\ lHeap[call.value].signatures \notin old
               /\ returned.documentId = given.documentId
               /\ lHeap[call.value].pdfMetadata = call.before[call.log].pdfMetadata
               /\ returned.pdfMetadata = given.pdfMetadata
               /\ returned.createdAt = given.createdAt
               /\ returned.signatures = Append(given.signatures, call.signature)
               /\ returned.updatedAt = Timestamp(call.now)

\* a record has been added to a ledger that had one, later than its updatedAt
C10_Witness ==
    /\ lCall # Null
    /\ lCall[1].op = "add"
    /\ Len(LogValue(lCall[1].before, lCall[1].log).signatures) >= 1
    /\ LogValue(lHeap, lCall[1].log).updatedAt # Timestamp(lCall[1].now)

\* C11: no call of handleSign changes the loaded document bytes: the step
\* that ends one leaves pdfBytes of the session as it was, and the hash of
\* the record it built is generateSignatureHash over those loaded bytes
\* and the signer's own fields.
C11_SignNeverChangesLoadedBytes ==
    [][lastSign' # Null
          => /\ state'.pdfBytes = state.pdfBytes
             /\ (state.pdfBytes # Null /\ lastSign'[1].signature.hash # <<>>)
                   => lastSign'[1].signature.hash =
                        generateSignatureHash(state.pdfBytes[1],
                                              lastSign'[1].signature.name,
                                              lastSign'[1].signature.cpf,
                                              lastSign'[1].signature.deviceId,
                                              lastSign'[1].signature.timestamp)]_vars

\* C12: the signatures form a chain: a signature made when the ledger
\* already holds records is hashed over bytes that contain those records,
\* so that its input is never the bare uploaded document (the bytes the
\* first signature was hashed over) and changes when an earlier record
\* changes.
C12_HashInputContainsEarlierSignatures ==
    (/\ lastSign # Null
     /\ ~lastSign[1].interleaved
     /\ lastSign[1].signature.hash # <<>>
     /\ lastSign[1].previous # Null
     /\ Len(lastSign[1].previous[1].signatures) >= 1
     /\ state.currentFile # Null)
        => LET contents == state.currentFile[1].contents
               uploaded == Uint8Array(contents, 0, Len(contents))
               signature == lastSign[1].signature
           IN  /\ lastSign[1].loaded # Some(uploaded)
               /\ signature.hash #
                     generateSignatureHash(uploaded, signature.name,
                                           signature.cpf, signature.deviceId,
                                           signature.timestamp)

(***************************************************************************)
(* The first two statements of createProtocolPage on documents of up to    *)
(* MaxPages pages: the size is detected, then the protocol page inserted.  *)
(***************************************************************************)
MaxPages == 4

\* the page sizes of the documents: A4, Letter and a small page
PageSizeChoices == {A4, <<61200, 79200>>, <<30000, 40000>>}

PageSizeInit ==
    /\ uIn \in UNION {[1..n -> PageSizeChoices] : n \in 0..MaxPages}
    /\ uPc = "detect"
    /\ uOut = <<>>
    /\ DigestIdle
    /\ PayloadIdle
    /\ FinalizeIdle
    /\ AppIdle
    /\ LedgerIdle

\* const [pageWidth, pageHeight] = detectOriginalPageSize(pdfDoc)
DetectPageSize ==
    /\ uPc = "detect"
    /\ uOut' = [size |-> detectOriginalPageSize(uIn),
                pages |-> [k \in 1..Len(uIn) |-> SourcePage(k, uIn[k])]]
    /\ uPc' = "insert"
    /\ UNCHANGED <<uIn, digestVars, payloadVars, finalizeVars, appVars,
                   ledgerVars>>

\* const protocolPage = pdfDoc.insertPage(0, [pageWidth, pageHeight])
InsertProtocolPage ==
    /\ uPc = "insert"
    /\ uOut' = [uOut EXCEPT
                  !.pages = insertPage(uOut.pages, 0, NewPage(1, uOut.size))]
    /\ uPc' = "done"
    /\ UNCHANGED <<uIn, digestVars, payloadVars, finalizeVars, appVars,
                   ledgerVars>>

PageSizeNext == DetectPageSize \/ InsertProtocolPage

SpecPageSize == PageSizeInit /\ [][PageSizeNext]_vars

\* how many pages of the document have exactly this size
Occurrences(sizes, size) ==
    Cardinality({k \in 1..Len(sizes) : sizes[k] = size})

\* C13: the protocol page size is A4 for a document of no pages, the page's
\* own size for one page, and otherwise a size of the document that no
\* other size outnumbers and that, among the sizes as frequent, occurs
\* first in page order; it is the size of the source pages alone, and the
\* page inserted with it goes in front of them.
C13_MostFrequentPageSize ==
    uPc \in {"insert", "done"}
        => /\ Len(uIn) = 0 => uOut.size = A4
           /\ Len(uIn) = 1 => uOut.size = uIn[1]
           /\ Len(uIn) >= 2
                => \E k \in 1..Len(uIn) :
                      /\ uIn[k] = uOut.size
                      /\ \A j \in 1..Len(uIn) :
                            /\ Occurrences(uIn, uIn[j]) <= Occurrences(uIn, uIn[k])
                            /\ (/\ Occurrences(uIn, uIn[j]) = Occurrences(uIn, uIn[k])
                                /\ uIn[j] # uIn[k]) => k < j
           /\ uPc = "done"
                => /\ Len(uOut.pages) = Len(uIn) + 1
                   /\ uOut.pages[1] = NewPage(1, uOut.size)
                   /\ \A k \in 1..Len(uIn) :
                         uOut.pages[k + 1] = SourcePage(k, uIn[k])

\* the protocol page of a document whose most frequent size is not the
\* size of its first page
C13_Witness ==
    /\ uPc = "done"
    /\ Len(uIn) >= 3
    /\ uOut.size # uIn[1]
    /\ uOut.pages[1].size = uOut.size

\* the drawings of the Authenticity section
AuthenticityKinds ==
    {"autenticidade", "autVerificar", "autBox", "autHashTotvs", "autAssinado",
     "autGerado", "autArquivo", "autTamanho", "autTotal"}

\* C14: whatever the ledger length and the protocol page size, every text
\* and the box of the Authenticity section is drawn at y >= 0, on the page.
C14_AuthenticityOnThePage ==
    \A k \in 1..Len(fPages) :
        \A j \in 1..Len(fPages[k].ops) :
            fPages[k].ops[j].kind \in AuthenticityKinds
                => fPages[k].ops[j].y >= 0

RECURSIVE PageBreaks(_, _, _)
\* how many times the check y < margin + 150 fires while n entries are drawn
\* from the cursor at y on pages of the given height
PageBreaks(y, height, n) ==
    IF n = 0 THEN 0
    ELSE LET entry == Pt(6 * LINE_HEIGHT + 10)
         IN  IF y < Pt(MARGIN + 150)
             THEN 1 + PageBreaks(height - Pt(MARGIN) - entry, height, n - 1)
             ELSE PageBreaks(y - entry, height, n - 1)

\* where the cursor is before the first entry on a page of the given height
FirstEntryAt(height) ==
    LET items == HeadItems(fIn.log, fHash)
    IN  height - Pt(MARGIN) - Advance(items, 1, Len(items))

\* C15 as stated: the artifact has the source's pages plus the protocol
\* pages, which for a ledger of one signer is exactly one page more.
C15_OneSignerOnePageMore ==
    (fOut.status = "saved" /\ Len(fIn.log.signatures) = 1)
        => Len(fOut.pages) = Len(fIn.pages) + 1

\* C15, amended: the artifact has the source's pages plus one page plus one
\* page for each overflow page break taken; for a ledger of one signer that
\* is exactly one page more when the first entry starts at or above
\* margin + 150 (pages at least 437 pt high), and two more otherwise.
C15_PageCount ==
    fOut.status = "saved"
        => LET breaks == PageBreaks(FirstEntryAt(fSize[2]), fSize[2],
                                    Len(fIn.log.signatures))
           IN  /\ Len(fOut.pages) = Len(fIn.pages) + 1 + breaks
               /\ Len(fOut.pages) = Len(fIn.pages) + CreatedCount(fOut.pages)
               /\ Len(fIn.log.signatures) = 1
                    => /\ fSize[2] >= Pt(437) => breaks = 0
                       /\ fSize[2] < Pt(437) => breaks = 1

\* the artifact of a one-page document of ordinary height with one signer
C15_Witness ==
    /\ fOut.status = "saved"
    /\ Len(fIn.log.signatures) = 1
    /\ Len(fIn.pages) = 1
    /\ fSize[2] >= Pt(437)
    /\ Len(fOut.pages) = 2

\* C16: for bytes that cannot be parsed finalizePDFWithProtocol ends with
\* the error of loadPDF, with no digest computed, no page made or drawn and
\* no bytes returned, and for bytes that can be parsed it never ends so;
\* validatePDF answers false for exactly the former and true for the latter.
C16_UnreadableDocumentFailsFirst ==
    /\ (~fIn.loadable /\ fPc # "load")
          => /\ fPc = "failed"
             /\ fOut = [status |-> "load-error", pages |-> <<>>]
             /\ fHash = <<>>
             /\ fPages = <<>>
    /\ fIn.loadable => (fPc # "failed" /\ fOut.status # "load-error")
    /\ validatePDF(fIn) \in BOOLEAN
    /\ validatePDF(fIn) = fIn.loadable
    /\ fPc = "failed" => ~validatePDF(fIn)
    /\ fOut.status = "saved" => validatePDF(fIn)

\* finalizePDFWithProtocol has ended on bytes that cannot be parsed, given
\* with a ledger that has signatures
C16_Witness ==
    /\ ~fIn.loadable
    /\ fPc = "failed"
    /\ Len(fIn.log.signatures) >= 1
    /\ fOut.status = "load-error"

\* an entry drawn from the top margin of a fresh page of this height has its
\* sixth line below the lower edge of the page
EntryCannotFit(height) == height - Pt(MARGIN) - Pt(5 * LINE_HEIGHT) < 0

\* C17: when one signer entry cannot fit even on a fresh protocol page,
\* createProtocolPage does not go on to draw a corrupted layout: past the
\* loop either the call has failed (entry too large) or every line of every
\* entry is within the page (the entry height was capped).
C17_EntryTooLargeIsGuarded ==
    (/\ fPc \in {"stamp", "done"}
     /\ Len(fIn.log.signatures) >= 1
     /\ EntryCannotFit(fSize[2]))
        => \/ fOut.status \notin {"none", "saved"}
           \/ \A k \in 1..Len(fPages) :
                 \A j \in 1..Len(fPages[k].ops) :
                     fPages[k].ops[j].sig > 0 => fPages[k].ops[j].y >= 0

\* the step adds a record to the ledger of the session
LedgerAppended ==
    /\ state.signatureLog # Null
    /\ state'.signatureLog # Null
    /\ Len(state'.signatureLog[1].signatures)
          > Len(state.signatureLog[1].signatures)

\* C18: no record is added to the ledger while a call of handleDownload is
\* in flight, and no call of handleDownload starts while a call of
\* handleSign is in flight.
C18_SignAndDownloadExclude ==
    [][/\ downloadCalls # <<>> => ~LedgerAppended
       /\ (signCalls # <<>> /\ downloadCalls = <<>>) => downloadCalls' = <<>>]_vars

\* the session holds no document: no file, no bytes, no ledger in memory
\* and no persisted log
Cleared ==
    /\ state.currentFile = Null
    /\ state.pdfBytes = Null
    /\ state.signatureLog = Null
    /\ localStorage.pdf_signature_current_log = Null

\* C19: handleClear leaves the session without file, bytes, ledger and
\* persisted log, and no step other than the end of a file selection takes
\* it out of that state, a resumed call of handleSign included.
C19_ClearedStaysCleared ==
    [][/\ Clear => Cleared'
       /\ (Cleared /\ Len(selectCall') >= Len(selectCall)) => Cleared']_vars

\* C20 as stated, its last sentence: a ledger is created exactly once per
\* newly uploaded document and never for a re-upload of the same document:
\* no file has a ledger created for it twice, and a file whose upload was
\* recognised is one that a ledger was created for.
C20_LedgerOncePerDocument ==
    /\ \A i, j \in 1..Len(created) : i # j => created[i] # created[j]
    /\ (lastSelect # Null /\ lastSelect[1].outcome = "recognised")
          => \E i \in 1..Len(created) : created[i] = lastSelect[1].file

\* C20, amended: a file selection with a valid PDF loads the file and its
\* bytes; when the persisted log has the file's name, size and last-modified
\* time the session ledger is that log, documentId and signatures intact,
\* and nothing is created or written; otherwise, and only then, a ledger
\* with a new documentId and no signatures is created for the file and
\* written in place of any earlier log (which stays only if the write
\* fails).
C20_SelectResumesOrCreates ==
    (lastSelect # Null /\ lastSelect[1].file.parses)
        => LET file == lastSelect[1].file
               saved == lastSelect[1].savedLog
               metadata == [fileName |-> file.name,
                            fileSize |-> Len(file.contents),
                            lastModified |-> file.lastModified]
               persisted == loadSignatureLog(localStorage)
           IN  /\ state.currentFile = Some(file)
               /\ state.pdfBytes =
                     Some(Uint8Array(file.contents, 0, Len(file.contents)))
               /\ state.signatureLog # Null
               /\ IF saved # Null /\ saved[1].pdfMetadata = metadata
                  THEN /\ lastSelect[1].outcome = "recognised"
                       /\ state.signatureLog = saved
                       /\ persisted = saved
                  ELSE LET log == state.signatureLog[1]
                       IN  /\ lastSelect[1].outcome = "created"
                           /\ created # <<>>
                           /\ created[Len(created)] = file
                           /\ log.signatures = <<>>
                           /\ log.pdfMetadata = metadata
                           /\ saved # Null
                                => /\ log.documentId # saved[1].documentId
                                   /\ \A k \in 1..Len(saved[1].signatures) :
                                         log.documentId
                                            # saved[1].signatures[k].id
                           /\ log.documentId # state.deviceId
                           /\ persisted = Some(log) \/ persisted = saved

\* a re-upload has just been recognised and the session resumed with the
\* persisted ledger and its signature
C20_Witness ==
    /\ lastSelect # Null
    /\ lastSelect[1].outcome = "recognised"
    /\ state.signatureLog # Null
    /\ Len(state.signatureLog[1].signatures) >= 1
    /\ state.signatureLog = loadSignatureLog(localStorage)

\* C21: records accumulate one per sign action, also when two calls of
\* handleSign overlap: a call that ends with its signature applied to the
\* ledger it started on leaves every record the session ledger held just
\* before, adds its own at the end, and the persisted log is that ledger.
C21_OverlappingSignsBothKept ==
    [][(/\ lastSign' # Null
        /\ lastSign'[1].outcome = "applied"
        /\ lastSign'[1].previous # Null
        /\ state.signatureLog # Null
        /\ state.signatureLog[1].documentId
              = lastSign'[1].previous[1].documentId)
          => /\ state'.signatureLog # Null
             /\ state'.signatureLog[1].signatures
                   = Append(state.signatureLog[1].signatures,
                            lastSign'[1].signature)
             /\ loadSignatureLog(localStorage') = state'.signatureLog]_vars

(***************************************************************************)
(* The signer form: what signerFormSchema accepts and what handleSign      *)
(* makes of it, for names of up to MaxNameLen characters.                  *)
(***************************************************************************)
MaxNameLen == 6

\* the characters typed into the name field: a space, a tab, a lower-case
\* and an upper-case letter
NameChars == {" ", "U+0009", "a", "L"}

FormNames == UNION {[1..n -> NameChars] : n \in 0..MaxNameLen}

\* the values typed into the CPF field: valid with and without punctuation,
\* valid with a letter and a space around it, a wrong check digit, eleven
\* equal digits, ten digits and twelve digits
FormCpfs ==
    {<<"5", "2", "9", ".", "9", "8", "2", ".", "2", "4", "7", "-", "2", "5">>,
     <<"1", "1", "1", "4", "4", "4", "7", "7", "7", "3", "5">>,
     <<"x", "5", "2", "9", "9", "8", "2", "2", "4", "7", "2", "5", " ">>,
     <<"5", "2", "9", "9", "8", "2", "2", "4", "7", "2", "6">>,
     <<"1", "1", "1", "1", "1", "1", "1", "1", "1", "1", "1">>,
     <<"5", "2", "9", "9", "8", "2", "2", "4", "7", "2">>,
     <<"5", "2", "9", "9", "8", "2", "2", "4", "7", "2", "5", "0">>}

FormInit ==
    /\ uIn \in [name : FormNames, cpf : FormCpfs]
    /\ uPc = "submit"
    /\ uOut = <<>>
    /\ DigestIdle
    /\ PayloadIdle
    /\ FinalizeIdle
    /\ AppIdle
    /\ LedgerIdle

\* handleSubmit of the form: onSubmit is called with accepted values only
ValidateForm ==
    /\ uPc = "submit"
    /\ uPc' = IF signerFormSchema(uIn) THEN "accepted" ELSE "rejected"
    /\ UNCHANGED <<uIn, uOut, digestVars, payloadVars, finalizeVars, appVars,
                   ledgerVars>>

\* handleSign: normalizedName and normalizedCPF, the fields of the record
NormalizeForm ==
    /\ uPc = "accepted"
    /\ uOut' = [name |-> normalizeName(uIn.name), cpf |-> normalizeCPF(uIn.cpf)]
    /\ uPc' = "signed"
    /\ UNCHANGED <<uIn, digestVars, payloadVars, finalizeVars, appVars,
                   ledgerVars>>

FormNext == ValidateForm \/ NormalizeForm

SpecForm == FormInit /\ [][FormNext]_vars

\* a whitespace character
IsWhite(c) == c \in {" ", "U+0009", "U+00A0"}

\* C22: the record built from accepted form values has a name without
\* leading or trailing whitespace, without two whitespace characters in a
\* row and with no whitespace other than the space, in upper case, that
\* normalizeName leaves as it is, and a cpf of exactly 11 digits.
C22_RecordFieldsNormalized ==
    uPc = "signed"
        => /\ Len(uOut.name) >= 1
           /\ ~IsWhite(uOut.name[1])
           /\ ~IsWhite(uOut.name[Len(uOut.name)])
           /\ \A i \in 1..(Len(uOut.name) - 1) :
                 ~(IsWhite(uOut.name[i]) /\ IsWhite(uOut.name[i + 1]))
           /\ \A i \in 1..Len(uOut.name) :
                 /\ IsWhite(uOut.name[i]) => uOut.name[i] = " "
                 /\ uOut.name[i] # "a"
           /\ ToUpperCase(uOut.name) = uOut.name
           /\ normalizeName(uOut.name) = uOut.name
           /\ Len(uOut.cpf) = 11
           /\ \A i \in 1..11 :
                 uOut.cpf[i] \in {"0", "1", "2", "3", "4", "5", "6", "7", "8", "9"}

\* a record built from a name with a tab and a run of whitespace inside and
\* a CPF typed with other characters
C22_Witness ==
    /\ uPc = "signed"
    /\ \E i \in 1..(Len(uIn.name) - 1) :
          uIn.name[i] = "U+0009" /\ IsWhite(uIn.name[i + 1])
    /\ IsWhite(uIn.name[1])
    /\ Len(uOut.name) < Len(uIn.name)
    /\ uOut.cpf # uIn.cpf

(***************************************************************************)
(* The presentation of a digest: abbreviateHash, formatHashTotvs and       *)
(* generateTotvsHash on hex strings of up to MaxHashLen characters.        *)
(***************************************************************************)
MaxHashLen == 64

MaxEdge == 12

\* a hex string of n characters in lower case, no two neighbours equal
HexText(n) == [i \in 1..n |-> HexDigits[((i * 7 + (i \div 16)) % 16) + 1]]

PresentInit ==
    /\ uIn \in [hash : {HexText(n) : n \in 0..MaxHashLen}, length : 0..MaxEdge]
    /\ uPc = "call"
    /\ uOut = <<>>
    /\ DigestIdle
    /\ PayloadIdle
    /\ FinalizeIdle
    /\ AppIdle
    /\ LedgerIdle

\* abbreviateHash(hash, length)
CallAbbreviateHash ==
    /\ uPc = "call"
    /\ uOut' = [op |-> "abbreviateHash",
                value |-> abbreviateHash(uIn.hash, uIn.length)]
    /\ uPc' = "returned"
    /\ UNCHANGED <<uIn, digestVars, payloadVars, finalizeVars, appVars,
                   ledgerVars>>

\* formatHashTotvs(hash)
CallFormatHashTotvs ==
    /\ uPc = "call"
    /\ uOut' = [op |-> "formatHashTotvs", value |-> formatHashTotvs(uIn.hash)]
    /\ uPc' = "returned"
    /\ UNCHANGED <<uIn, digestVars, payloadVars, finalizeVars, appVars,
                   ledgerVars>>

\* generateTotvsHash(hash)
CallGenerateTotvsHash ==
    /\ uPc = "call"
    /\ uOut' = [op |-> "generateTotvsHash",
                value |-> generateTotvsHash(uIn.hash)]
    /\ uPc' = "returned"
    /\ UNCHANGED <<uIn, digestVars, payloadVars, finalizeVars, appVars,
                   ledgerVars>>

PresentNext ==
    \/ CallAbbreviateHash
    \/ CallFormatHashTotvs
    \/ CallGenerateTotvsHash

SpecPresent == PresentInit /\ [][PresentNext]_vars

\* C23: abbreviateHash(hash, n) is hash itself when hash has at most 2n + 3
\* characters, and otherwise its first n characters, three dots and its
\* last n characters, 2n + 3 characters in all (19 for a digest of 64 with
\* n = 8); the result is never longer than hash.
C23_AbbreviateHash ==
    (uPc = "returned" /\ uOut.op = "abbreviateHash")
        => LET hash == uIn.hash
               n == uIn.length
               out == uOut.value
           IN  /\ Len(hash) <= 2 * n + 3 => out = hash
               /\ Len(hash) > 2 * n + 3
                    => /\ Len(out) = 2 * n + 3
                       /\ \A i \in 1..n :
                             /\ out[i] = hash[i]
                             /\ out[n + 3 + i] = hash[Len(hash) - n + i]
                       /\ \A i \in 1..3 : out[n + i] = "."
               /\ (Len(hash) = 64 /\ n = 8) => Len(out) = 19
               /\ Len(out) <= Len(hash)

\* a digest of 64 characters abbreviated with n = 8
C23_Witness ==
    /\ uPc = "returned"
    /\ uOut.op = "abbreviateHash"
    /\ Len(uIn.hash) = 64
    /\ uIn.length = 8
    /\ Len(uOut.value) = 19

\* a hex digit in upper case
UpperHex(c) ==
    CASE c = "a" -> "A" [] c = "b" -> "B" [] c = "c" -> "C" [] c = "d" -> "D"
      [] c = "e" -> "E" [] c = "f" -> "F" [] OTHER -> c

\* text is the groups of two characters of hash, in upper case, with a '-'
\* between neighbours
IsGroupedForm(text, hash) ==
    LET groups == Len(hash) \div 2
    IN  /\ Len(text) = IF groups = 0 THEN 0 ELSE 3 * groups - 1
        /\ \A k \in 1..groups :
              /\ text[3 * k - 2] = UpperHex(hash[2 * k - 1])
              /\ text[3 * k - 1] = UpperHex(hash[2 * k])
              /\ k < groups => text[3 * k] = "-"

\* C24: for a hex string of even length formatHashTotvs returns its
\* 2-character groups in upper case joined with '-', len/2 groups (32
\* groups in 95 characters for a digest of 64, the empty string for the
\* empty string); generateTotvsHash returns that form of the first 40
\* characters, which for a digest of 64 is 20 groups and a prefix of the
\* full grouped form.
C24_GroupedHex ==
    (uPc = "returned" /\ Len(uIn.hash) % 2 = 0)
        => /\ uOut.op = "formatHashTotvs"
                => /\ IsGroupedForm(uOut.value, uIn.hash)
                   /\ Len(uIn.hash) = 64 => Len(uOut.value) = 95
                   /\ uIn.hash = <<>> => uOut.value = <<>>
           /\ uOut.op = "generateTotvsHash"
                => /\ IsGroupedForm(uOut.value,
                                    SubSeq(uIn.hash, 1,
                                           IF Len(uIn.hash) < 40
                                           THEN Len(uIn.hash) ELSE 40))
                   /\ Len(uIn.hash) = 64
                        => /\ Len(uOut.value) = 59
                           /\ uOut.value
                                 = SubSeq(formatHashTotvs(uIn.hash), 1, 59)

\* the grouped form of a digest of 64 characters with letters in it
C24_Witness ==
    /\ uPc = "returned"
    /\ uOut.op = "formatHashTotvs"
    /\ Len(uIn.hash) = 64
    /\ Len(uOut.value) = 95
    /\ \E i \in 1..64 : uIn.hash[i] = "c"
    /\ \E i \in 1..95 : uOut.value[i] = "C"

\* C25: a device id is created and stored only when none is stored; once
\* one is stored no step changes or removes it, whatever is saved, loaded
\* or cleared in between, and a mount that finds one takes that value as
\* the device id of the session, writes nothing and draws no new UUID.
C25_DeviceIdCreatedOnce ==
    [][/\ localStorage.pdf_signature_device_id # Null
            => localStorage'.pdf_signature_device_id
                 = localStorage.pdf_signature_device_id
       /\ (~mounted /\ uuidCount' # uuidCount)
            => localStorage.pdf_signature_device_id = Null
       /\ (~mounted /\ mounted')
            => /\ localStorage'.pdf_signature_device_id # Null
               /\ state'.deviceId = localStorage'.pdf_signature_device_id[1]
               /\ localStorage.pdf_signature_device_id # Null
                    => /\ localStorage' = localStorage
                       /\ uuidCount' = uuidCount]_vars

\* the page was reloaded after a ledger was created and the component,
\* mounted again with no log stored, has the device id of the first mount
C25_Witness ==
    /\ mounted
    /\ rendered = InitialState
    /\ state.currentFile = Null
    /\ created # <<>>
    /\ localStorage.pdf_signature_current_log = Null
    /\ localStorage.pdf_signature_device_id = Some(UUID(1))
    /\ state.deviceId = UUID(1)
    /\ uuidCount >= 2

\* no document is loaded or shown as loaded and no handler that works on
\* a document is in flight: the session as a mount leaves it
Unloaded ==
    /\ mounted
    /\ state.currentFile = Null /\ state.pdfBytes = Null
    /\ rendered.currentFile = Null /\ rendered.pdfBytes = Null
    /\ signCalls = <<>>
    /\ downloadCalls = <<>>

\* the session ledger is the persisted log: both absent, or the stored
\* item is the serialisation of the ledger
LedgerIsPersistedLog ==
    IF localStorage.pdf_signature_current_log = Null
    THEN state.signatureLog = Null
    ELSE /\ state.signatureLog # Null
         /\ JSONStringify(state.signatureLog[1])
              = localStorage.pdf_signature_current_log[1]

\* C26: storage holds the device id and the log only, never the bytes of
\* the document. A mount after a reload leaves the session ledger equal
\* to the persisted log with pdfBytes and currentFile null and nothing in
\* flight, and from such a state, until a file selection loads a
\* document, no step starts a sign or a download, changes the ledger or
\* writes to storage.
C26_ReloadKeepsLogOnly ==
    [][/\ DOMAIN localStorage
            = {"pdf_signature_device_id", "pdf_signature_current_log"}
       /\ (~mounted /\ mounted')
            => Unloaded' /\ LedgerIsPersistedLog'
       /\ (Unloaded /\ mounted' /\ state'.currentFile = Null)
            => /\ Unloaded'
               /\ state'.signatureLog = state.signatureLog
               /\ localStorage' = localStorage
               /\ lastSign' = Null
               /\ lastDownload' = Null]_vars

\* the page was reloaded with one signature in the log: the ledger is
\* back, rendered, and there are no bytes to sign or to finalize
C26_Witness ==
    /\ Unloaded
    /\ rendered = state
    /\ state.signatureLog # Null
    /\ Len(state.signatureLog[1].signatures) >= 1
    /\ LedgerIsPersistedLog
    /\ selectCall = <<>>

\* C27: finalizePDFWithProtocol only reads its arguments. No step of the
\* call writes to an object of the caller (the ledger, its metadata, its
\* signatures array with every record, the bytes) and when the call has
\* ended, with the saved artifact or with the error of loadPDF, the ledger
\* and the bytes the caller holds have the values that were passed in.
C27_FinalizeReadsOnly ==
    [][/\ fHeap' = fHeap
       /\ fPc' \in {"done", "failed"}
            => /\ LogValue(fHeap', 3) = fIn.log
               /\ fHeap'[4].value = fIn.pdfBytes]_vars

\* a call on a ledger of several signers has looped over the signatures
\* array of the caller and returned its artifact
C27_Witness ==
    /\ fPc = "done"
    /\ fOut.status = "saved"
    /\ fLoop = fHeap[3].signatures
    /\ Len(fHeap[fLoop].items) >= 2
    /\ fHeap[fLoop].items[1] # fHeap[fLoop].items[2]
    /\ Len(fIn.pages) >= 1
    /\ \E j \in 1..Len(fOut.pages[1].ops) :
          fOut.pages[1].ops[j].kind = "sigNome" /\ fOut.pages[1].ops[j].sig = 2

\* the step is the end of a handler whose saveSignatureLog threw: a call
\* of handleSign that ended in the error outcome with its record in the
\* ledger, or a file selection that created a ledger and stored nothing
SaveThrew ==
    \/ /\ lastSign' # Null
       /\ lastSign'[1].outcome = "error"
       /\ lastSign'[1].result # Null
       /\ \E k \in 1..Len(lastSign'[1].result[1].signatures) :
             lastSign'[1].result[1].signatures[k] = lastSign'[1].signature
    \/ /\ lastSelect' # Null
       /\ lastSelect'[1].outcome = "created"
       /\ localStorage' = localStorage

\* C28: as long as no storage write fails, the session ledger of a
\* mounted component equals the persisted log: the mount makes them equal
\* (both absent without a saved log), handleClear leaves both absent, and
\* every other step, the ends of handleFileSelect and handleSign
\* included, keeps them equal, with the same documentId and the same
\* signatures in the same order.
C28_LedgerEqualsPersistedLog ==
    [][/\ (mounted' /\ ~SaveThrew /\ (~mounted \/ LedgerIsPersistedLog))
            => LedgerIsPersistedLog'
       /\ (mounted' /\ state.currentFile # Null /\ state'.currentFile = Null)
            => /\ state'.signatureLog = Null
               /\ localStorage'.pdf_signature_current_log = Null
       /\ (LedgerIsPersistedLog' /\ state'.signatureLog # Null)
            => LET saved == loadSignatureLog(localStorage')[1]
               IN  /\ saved.documentId = state'.signatureLog[1].documentId
                   /\ saved.signatures = state'.signatureLog[1].signatures]_vars

\* two calls of handleSign have ended, the second one a moment ago; nothing
\* is in flight and the ledger of two records is the persisted log
C28_Witness ==
    /\ mounted
    /\ selectCall = <<>> /\ signCalls = <<>> /\ downloadCalls = <<>>
    /\ lastSign # Null /\ lastSign[1].outcome = "applied"
    /\ state.signatureLog # Null
    /\ Len(state.signatureLog[1].signatures) = 2
    /\ LedgerIsPersistedLog

\* C29: a call of handleSign that ends in the error outcome leaves the
\* session as it was: the ledger in memory has no new record, the
\* persisted log is what it was and the document bytes are unchanged.
C29_FailedSignChangesNothing ==
    [][(lastSign' # Null /\ lastSign'[1].outcome = "error")
          => /\ state'.signatureLog = state.signatureLog
             /\ localStorage' = localStorage
             /\ state'.pdfBytes = state.pdfBytes]_vars

\* C30: while a document is loaded, every record of the session ledger
\* was signed over the loaded bytes: generateSignatureHash of the current
\* pdfBytes and the record's name, cpf, deviceId and timestamp is the
\* record's hash.
C30_RecordsSignedOverLoadedBytes ==
    (mounted /\ state.currentFile # Null /\ state.pdfBytes # Null
       /\ state.signatureLog # Null)
      => \A k \in 1..Len(state.signatureLog[1].signatures) :
            LET r == state.signatureLog[1].signatures[k]
            IN  generateSignatureHash(state.pdfBytes[1], r.name, r.cpf,
                                      r.deviceId, r.timestamp) = r.hash

====
